---- MODULE Spec2Model ----
(***************************************************************************)
(* Loan management: the client-side EMI math (emi-math.ts) and the         *)
(* multi-loan payoff simulation described by the specification.            *)
(*                                                                         *)
(* Numbers.  The TypeScript code computes with IEEE doubles.  The model    *)
(* computes the same expressions over exact rationals: an annual rate is   *)
(* a pair <<num, den>> (percent), a money amount that need not be whole    *)
(* is a pair <<num, den>>, and (1 + r)^n is an arbitrary-precision         *)
(* natural (a little-endian sequence of limbs below Base), because         *)
(* (1 + r)^n does not fit a machine integer.  Math.round is floor(x + 1/2).*)
(***************************************************************************)
EXTENDS Integers, Sequences, FiniteSets, TLC

(***************************************************************************)
(* Arbitrary-precision naturals                                            *)
(***************************************************************************)
Abs(x) == IF x < 0 THEN -x ELSE x
Min(x, y) == IF x < y THEN x ELSE y
Max(x, y) == IF x > y THEN x ELSE y

Base == 10 * 10 * 10

\* Every operation is a function, so that its arguments are values when its
\* body is evaluated.
Big == Seq(Nat)

Mat(f, n) == SubSeq(f, 1, n)

Limb(a, k) == IF k >= 1 /\ k <= Len(a) THEN a[k] ELSE 0

BigFromIntFn[x \in Nat] ==
  IF x = 0 THEN << >> ELSE <<x % Base>> \o BigFromIntFn[x \div Base]

BigFromInt(x) == BigFromIntFn[x]

\* a without its leading zero limbs
BigTrimFn[a \in Big] ==
  LET \* index of the highest non-zero limb of a[lo..hi], 0 when there is none
      last[lo \in Nat, hi \in Nat] ==
        IF lo > hi THEN 0
        ELSE IF lo = hi THEN (IF a[lo] # 0 THEN lo ELSE 0)
        ELSE IF last[(lo + hi) \div 2 + 1, hi] # 0
               THEN last[(lo + hi) \div 2 + 1, hi]
               ELSE last[lo, (lo + hi) \div 2]
  IN  SubSeq(a, 1, IF a # << >> /\ a[Len(a)] # 0 THEN Len(a) ELSE last[1, Len(a)])

CarryRoundFn[c \in Big] ==
  Mat([k \in 1..(Len(c) + 1) |-> (Limb(c, k) % Base) + (Limb(c, k - 1) \div Base)],
      Len(c) + 1)

\* limbs at most Base + 2 -> canonical limbs below Base
CarryFinishFn[c \in Big] ==
  LET \* a carry enters limb k
      carry[k \in Nat] ==
        k > 1 /\ (c[k - 1] >= Base \/ (c[k - 1] = Base - 1 /\ carry[k - 1]))
  IN  BigTrimFn[Mat([k \in 1..(Len(c) + 1) |->
        (Limb(c, k) + (IF carry[k] THEN 1 ELSE 0)) % Base], Len(c) + 1)]

\* column sums (each below 2^31) -> canonical limbs below Base
BigNormFn[c \in Big] == CarryFinishFn[CarryRoundFn[CarryRoundFn[CarryRoundFn[c]]]]

BigAddFn[a \in Big, b \in Big] ==
  BigNormFn[Mat([k \in 1..Max(Len(a), Len(b)) |-> Limb(a, k) + Limb(b, k)],
                Max(Len(a), Len(b)))]

BigAdd(a, b) == BigAddFn[a, b]

\* a - b for a >= b
BigSubFn[a \in Big, b \in Big] ==
  LET \* a[lo..hi] < b[lo..hi] as numbers
      less[lo \in Nat, hi \in Nat] ==
        IF lo > hi THEN FALSE
        ELSE IF lo = hi THEN a[lo] < Limb(b, lo)
        ELSE IF \E m \in ((lo + hi) \div 2 + 1)..hi : a[m] # Limb(b, m)
          THEN less[(lo + hi) \div 2 + 1, hi]
          ELSE less[lo, (lo + hi) \div 2]
  IN  BigTrimFn[Mat([k \in 1..Len(a) |->
        (a[k] - Limb(b, k) - (IF less[1, k - 1] THEN 1 ELSE 0) + Base) % Base],
        Len(a))]

BigSub(a, b) == BigSubFn[a, b]

\* -1, 0, 1 as a < b, a = b, a > b
BigCmpFn[a \in Big, b \in Big] ==
  LET cmp[lo \in Nat, hi \in Nat] ==
        IF lo > hi THEN 0
        ELSE IF lo = hi
          THEN (IF a[lo] < b[lo] THEN -1 ELSE IF a[lo] > b[lo] THEN 1 ELSE 0)
        ELSE IF SubSeq(a, (lo + hi) \div 2 + 1, hi) # SubSeq(b, (lo + hi) \div 2 + 1, hi)
          THEN cmp[(lo + hi) \div 2 + 1, hi]
          ELSE cmp[lo, (lo + hi) \div 2]
  IN  IF Len(a) < Len(b) THEN -1
      ELSE IF Len(a) > Len(b) THEN 1
      ELSE cmp[1, Len(a)]

BigCmp(a, b) == BigCmpFn[a, b]

BigMulFn[a \in Big, b \in Big] ==
  LET \* sum of a[k - j + 1] * b[j] for j in lo..hi
      sum[k \in Nat, lo \in Nat, hi \in Nat] ==
        IF lo > hi THEN 0
        ELSE IF lo = hi THEN a[k - lo + 1] * b[lo]
        ELSE sum[k, lo, (lo + hi) \div 2] + sum[k, (lo + hi) \div 2 + 1, hi]
  IN  IF a = << >> \/ b = << >> THEN << >>
      ELSE BigNormFn[Mat([k \in 1..(Len(a) + Len(b) - 1) |->
             sum[k, (IF k > Len(a) THEN k - Len(a) + 1 ELSE 1),
                    (IF k < Len(b) THEN k ELSE Len(b))]], Len(a) + Len(b) - 1)]

BigMul(a, b) == BigMulFn[a, b]

\* h * h, times a when odd = 1
PowStepFn[h \in Big, a \in Big, odd \in Nat] ==
  IF odd = 1 THEN BigMulFn[BigMulFn[h, h], a] ELSE BigMulFn[h, h]

\* Math.pow(a, n) for a natural a
BigPowFn[a \in Big, n \in Nat] ==
  IF n = 0 THEN <<1>> ELSE PowStepFn[BigPowFn[a, n \div 2], a, n % 2]

BigPow(a, n) == BigPowFn[a, n]

\* floor(num / den) for a quotient known to lie in from..to
BigQuotFn[num \in Big, den \in Big, from \in Nat, to \in Nat] ==
  LET quot[lo \in Nat, hi \in Nat] ==
        IF lo = hi THEN lo
        ELSE IF BigCmpFn[BigMulFn[den, BigFromIntFn[lo + (hi - lo + 1) \div 2]], num] <= 0
               THEN quot[lo + (hi - lo + 1) \div 2, hi]
               ELSE quot[lo, lo + (hi - lo + 1) \div 2 - 1]
  IN  quot[from, to]

BigQuotIn(num, den, lo, hi) == BigQuotFn[num, den, lo, hi]

\* Math.round(num / den) = floor(num / den + 1/2), the result known to be <= hi
BigRound(num, den, hi) ==
  BigQuotFn[BigAddFn[BigMulFn[num, <<2>>], den], BigMulFn[den, <<2>>], 0, hi]

\* Math.round(a / b) for machine integers, b > 0
RoundDiv(a, b) == (2 * a + b) \div (2 * b)

(***************************************************************************)
(* emi-math.ts                                                             *)
(***************************************************************************)
MonthsPerYearPct == 1200

\* the rate as a pair of arbitrary-precision naturals
BigRate(annualRate) == <<BigFromInt(annualRate[1]), BigFromInt(annualRate[2])>>

\* lines 12-13 of calculateEMI with r = num / q (q = 1200 * den) and
\* factor = factorNum / factorDen = (q + num)^n / q^n:
\* principal * r * factor / (factor - 1)
\*   = principal * num * factorNum / (q * (factorNum - factorDen))
EmiOfFactorFn[P \in Nat, num \in Big, q \in Big, factorNum \in Big, factorDen \in Big] ==
  BigRound(BigMulFn[BigMulFn[BigFromIntFn[P], num], factorNum],
           BigMulFn[q, BigSubFn[factorNum, factorDen]],
           2 * P + 1)

\* the same with Math.floor in place of Math.round
EmiOfFactorFloorFn[P \in Nat, num \in Big, q \in Big, factorNum \in Big, factorDen \in Big] ==
  BigQuotFn[BigMulFn[BigMulFn[BigFromIntFn[P], num], factorNum],
            BigMulFn[q, BigSubFn[factorNum, factorDen]],
            0, 2 * P + 1]

MonthlyRateDen(bigRate) == BigMul(bigRate[2], BigFromInt(MonthsPerYearPct))

calculateEMIBig_Floor(principal, bigRate, tenureMonths) ==
  IF principal <= 0 \/ tenureMonths <= 0 THEN <<0, 1>>
  ELSE IF bigRate[1] = << >> THEN <<principal, tenureMonths>>
  ELSE <<EmiOfFactorFloorFn[principal, bigRate[1], MonthlyRateDen(bigRate),
           BigPow(BigAdd(MonthlyRateDen(bigRate), bigRate[1]), tenureMonths),
           BigPow(MonthlyRateDen(bigRate), tenureMonths)], 1>>

\* calculateEMI that leaves the factor out of the numerator:
\* principal * r / (factor - 1)
calculateEMIBig_NoCompounding(principal, bigRate, tenureMonths) ==
  IF principal <= 0 \/ tenureMonths <= 0 THEN <<0, 1>>
  ELSE IF bigRate[1] = << >> THEN <<principal, tenureMonths>>
  ELSE <<BigRound(BigMul(BigMul(BigFromInt(principal), bigRate[1]),
                         BigPow(MonthlyRateDen(bigRate), tenureMonths)),
                  BigMul(MonthlyRateDen(bigRate),
                         BigSub(BigPow(BigAdd(MonthlyRateDen(bigRate), bigRate[1]), tenureMonths),
                                BigPow(MonthlyRateDen(bigRate), tenureMonths))),
                  2 * principal + 1), 1>>

\* calculateEMI with the rate given as arbitrary-precision <<num, den>>.
\* The result is the money amount <<num, den>>: whole (den = 1) where the
\* code rounds, principal / tenureMonths as it stands where it does not.
calculateEMIBig(principal, bigRate, tenureMonths) ==
  IF principal <= 0 \/ tenureMonths <= 0 THEN <<0, 1>>
  ELSE IF bigRate[1] = << >> THEN <<principal, tenureMonths>>
  ELSE <<EmiOfFactorFn[principal, bigRate[1], MonthlyRateDen(bigRate),
           BigPow(BigAdd(MonthlyRateDen(bigRate), bigRate[1]), tenureMonths),
           BigPow(MonthlyRateDen(bigRate), tenureMonths)], 1>>

calculateEMI(principal, annualRate, tenureMonths) ==
  calculateEMIBig(principal, BigRate(annualRate), tenureMonths)

\* calculateTotalInterest that forgets to take the principal off
calculateTotalInterest_Gross(principal, annualRate, tenureMonths) ==
  LET emi == calculateEMI(principal, annualRate, tenureMonths)
  IN  RoundDiv(emi[1] * tenureMonths, emi[2])

calculateTotalInterest(principal, annualRate, tenureMonths) ==
  LET emi == calculateEMI(principal, annualRate, tenureMonths)
  IN  RoundDiv(emi[1] * tenureMonths - principal * emi[2], emi[2])

\* lines 105-107 of calculateAffordability with emi = emiNum / emiDen, r = num / q
\* and factor = factorNum / factorDen:
\* emi * (factor - 1) / (r * factor)
\*   = emiNum * (factorNum - factorDen) * q / (emiDen * num * factorNum),
\* which is at most emi * n
AffordabilityOfFactorFn[emiNum \in Nat, emiDen \in Nat, n \in Nat, num \in Big, q \in Big, factorNum \in Big, factorDen \in Big] ==
  BigRound(BigMulFn[BigMulFn[BigFromIntFn[emiNum], BigSubFn[factorNum, factorDen]], q],
           BigMulFn[BigMulFn[BigFromIntFn[emiDen], num], factorNum],
           emiNum * n + 1)

\* calculateAffordability that discounts the EMIs by one month too few
calculateAffordability_OnePaymentShort(emiArg, annualRate, tenureMonths) ==
  IF emiArg[1] <= 0 \/ tenureMonths <= 0 THEN <<0, 1>>
  ELSE IF annualRate[1] = 0 THEN <<emiArg[1] * tenureMonths, emiArg[2]>>
  ELSE <<AffordabilityOfFactorFn[emiArg[1], emiArg[2], tenureMonths,
           BigFromInt(annualRate[1]), MonthlyRateDen(BigRate(annualRate)),
           BigPow(BigAdd(MonthlyRateDen(BigRate(annualRate)), BigFromInt(annualRate[1])),
                  tenureMonths - 1),
           BigPow(MonthlyRateDen(BigRate(annualRate)), tenureMonths - 1)], 1>>

\* calculateAffordability that checks the EMI only
calculateAffordability_TenureUnchecked(emiArg, annualRate, tenureMonths) ==
  IF emiArg[1] <= 0 THEN <<0, 1>>
  ELSE IF annualRate[1] = 0 \/ tenureMonths <= 0 THEN <<emiArg[1] * tenureMonths, emiArg[2]>>
  ELSE <<AffordabilityOfFactorFn[emiArg[1], emiArg[2], tenureMonths,
           BigFromInt(annualRate[1]), MonthlyRateDen(BigRate(annualRate)),
           BigPow(BigAdd(MonthlyRateDen(BigRate(annualRate)), BigFromInt(annualRate[1])),
                  tenureMonths),
           BigPow(MonthlyRateDen(BigRate(annualRate)), tenureMonths)], 1>>

\* lines 102-108.  emiArg is the money amount <<num, den>>; so is the result:
\* whole where the code rounds, emi * tenureMonths as it stands where not.
calculateAffordability(emiArg, annualRate, tenureMonths) ==
  IF emiArg[1] <= 0 \/ tenureMonths <= 0 THEN <<0, 1>>
  ELSE IF annualRate[1] = 0 THEN <<emiArg[1] * tenureMonths, emiArg[2]>>
  ELSE <<AffordabilityOfFactorFn[emiArg[1], emiArg[2], tenureMonths,
           BigFromInt(annualRate[1]), MonthlyRateDen(BigRate(annualRate)),
           BigPow(BigAdd(MonthlyRateDen(BigRate(annualRate)), BigFromInt(annualRate[1])),
                  tenureMonths),
           BigPow(MonthlyRateDen(BigRate(annualRate)), tenureMonths)], 1>>

\* One pass of the loop body of generateAmortization, on amounts counted in
\* units of 1/unit (unit = the denominator of emi: 1 whenever the rate is
\* positive, where every amount of the schedule is whole).
\* loopBalance: balance at the top of the body; emiNum: emi in those units.
AmortizationMonth_AnnualRate(loopBalance, emiNum, annualRate, prepayment) ==
  LET interest == IF annualRate[1] > 0
                    THEN RoundDiv(loopBalance * annualRate[1], 100 * annualRate[2])
                    ELSE 0
      scheduled == IF emiNum - interest > loopBalance THEN loopBalance ELSE emiNum - interest
      afterEmi == loopBalance - scheduled
      prepay == IF prepayment > 0 /\ afterEmi > 0 THEN Min(prepayment, afterEmi) ELSE 0
  IN  [interest |-> interest,
       principal |-> scheduled + prepay,
       balance |-> Max(0, afterEmi - prepay)]

\* a loop body that takes the configured prepayment whatever is left
AmortizationMonth_PrepaymentUncapped(loopBalance, emiNum, annualRate, prepayment) ==
  LET interest == IF annualRate[1] > 0
                    THEN RoundDiv(loopBalance * annualRate[1], MonthsPerYearPct * annualRate[2])
                    ELSE 0
      scheduled == IF emiNum - interest > loopBalance THEN loopBalance ELSE emiNum - interest
      afterEmi == loopBalance - scheduled
      prepay == IF prepayment > 0 /\ afterEmi > 0 THEN prepayment ELSE 0
  IN  [interest |-> interest,
       principal |-> scheduled + prepay,
       balance |-> Max(0, afterEmi - prepay)]

\* a loop body that works the prepayment out and never takes it off the balance
AmortizationMonth_PrepaymentUnapplied(loopBalance, emiNum, annualRate, prepayment) ==
  LET interest == IF annualRate[1] > 0
                    THEN RoundDiv(loopBalance * annualRate[1], MonthsPerYearPct * annualRate[2])
                    ELSE 0
      scheduled == IF emiNum - interest > loopBalance THEN loopBalance ELSE emiNum - interest
      afterEmi == loopBalance - scheduled
      prepay == IF prepayment > 0 /\ afterEmi > 0 THEN Min(prepayment, afterEmi) ELSE 0
  IN  [interest |-> interest,
       principal |-> scheduled + prepay,
       balance |-> Max(0, afterEmi)]

AmortizationMonth(loopBalance, emiNum, annualRate, prepayment) ==
  LET interest == IF annualRate[1] > 0
                    THEN RoundDiv(loopBalance * annualRate[1], MonthsPerYearPct * annualRate[2])
                    ELSE 0
      scheduled == IF emiNum - interest > loopBalance THEN loopBalance ELSE emiNum - interest
      afterEmi == loopBalance - scheduled
      prepay == IF prepayment > 0 /\ afterEmi > 0 THEN Min(prepayment, afterEmi) ELSE 0
  IN  [interest |-> interest,
       principal |-> scheduled + prepay,
       balance |-> Max(0, afterEmi - prepay)]

\* calculateInterestSaved that takes the index of the last entry for the
\* number of months
calculateInterestSaved_LastIndex(principal, annualRate, tenureMonths, schedule, unit) ==
  LET baselineInterest == calculateTotalInterest(principal, annualRate, tenureMonths)
      actualInterest == IF Len(schedule) > 0
                          THEN schedule[Len(schedule)].cumulativeInterest \div unit
                          ELSE 0
  IN  [interestSaved |-> baselineInterest - actualInterest,
       monthsSaved |-> tenureMonths - (Len(schedule) - 1)]

\* lines 81-88 of calculateInterestSaved; schedule is what line 82 returned, its
\* amounts counted in units of 1/unit
calculateInterestSaved(principal, annualRate, tenureMonths, schedule, unit) ==
  LET baselineInterest == calculateTotalInterest(principal, annualRate, tenureMonths)
      actualInterest == IF Len(schedule) > 0
                          THEN schedule[Len(schedule)].cumulativeInterest \div unit
                          ELSE 0
  IN  [interestSaved |-> baselineInterest - actualInterest,
       monthsSaved |-> tenureMonths - Len(schedule)]

\* line 44: the loop condition
LoopContinues_OffByOne(loopMonth, tenure, loopBalance) ==
  loopMonth <= tenure + 1 /\ loopBalance > 0

LoopContinues(loopMonth, tenure, loopBalance) ==
  loopMonth <= tenure /\ loopBalance > 0

(***************************************************************************)
(* reverseEMIRate: a rate is <<num, den>> with arbitrary-precision num and *)
(* den; low and high are kept over one denominator                         *)
(***************************************************************************)
MaxIterations == 100
EmiTolerance == 1

\* line 92: low = 0.01, high = 50
SearchLow == <<BigFromInt(1), BigFromInt(100)>>
SearchHigh == <<BigFromInt(50 * 100), BigFromInt(100)>>

\* line 94: (low + high) / 2
Midpoint(low, high) == <<BigAdd(low[1], high[1]), BigMul(low[2], <<2>>)>>

\* the bound that line 97 leaves alone, written over the denominator of mid
Unmoved(bound) == <<BigMul(bound[1], <<2>>), BigMul(bound[2], <<2>>)>>

\* lines 96, 99: Math.round(rate * 100) / 100 as <<hundredths, 100>>
RoundToHundredths(rate) ==
  <<BigRound(BigMul(rate[1], BigFromInt(100)), rate[2], 50 * 100 + 1), 100>>

\* a convergence test a thousand times too lenient
Converged_Lenient(calcEmi, emi) ==
  Abs(calcEmi[1] * emi[2] - emi[1] * calcEmi[2]) <= 1000 * EmiTolerance * calcEmi[2] * emi[2]

\* line 96: Math.abs(calcEmi - emi) <= 1
Converged(calcEmi, emi) ==
  Abs(calcEmi[1] * emi[2] - emi[1] * calcEmi[2]) <= EmiTolerance * calcEmi[2] * emi[2]

\* line 97: calcEmi < emi
RateTooLow(calcEmi, emi) == calcEmi[1] * emi[2] < emi[1] * calcEmi[2]

\* a loop that takes one pass too many
SolverLoopContinues_OffByOne(i) == i <= MaxIterations

\* line 93: i < 100
SolverLoopContinues(i) == i < MaxIterations

(***************************************************************************)
(* The payoff simulation (Simulation Engine, Strategy Policies, Baseline   *)
(* Comparator, Result Aggregator).  Money is whole currency units, a rate  *)
(* is <<num, den>> percent a year, a percentage is a whole number.         *)
(***************************************************************************)
MaxSimMonths == 600
QuickWinEmis == 3

\* the baseline, then the four strategies in canonical order
RunOrder == <<"baseline", "smart_hybrid", "avalanche", "snowball", "proportional">>

\* sum of f[k] for k in S
RECURSIVE SumOver(_, _)
SumOver(f, S) ==
  IF S = {} THEN 0
  ELSE LET k == CHOOSE x \in S : TRUE IN f[k] + SumOver(f, S \ {k})

\* the elements of the set of numbers S in increasing order
RECURSIVE Ascending(_)
Ascending(S) ==
  IF S = {} THEN << >>
  ELSE LET k == CHOOSE x \in S : \A y \in S : x <= y IN <<k>> \o Ascending(S \ {k})

\* the lump sums scheduled for a month
LumpSumAt(lumpSums, month) ==
  SumOver([k \in DOMAIN lumpSums |->
             IF lumpSums[k].month = month THEN lumpSums[k].amount ELSE 0], DOMAIN lumpSums)

\* step 1: monthly extra + lump sum of the month + freed-EMI pool; the baseline
\* applies no extra budget and redirects no freed EMI
AvailableBudget(strategy, monthlyExtra, lumpSums, month, freedEmiPool) ==
  IF strategy = "baseline" THEN 0
  ELSE monthlyExtra + LumpSumAt(lumpSums, month) + freedEmiPool

\* step 2: the scheduled EMI of one loan, by the amortization rule
ScheduledEmi(loan, snapshot) ==
  IF snapshot.status = "active"
    THEN AmortizationMonth(snapshot.balance, loan.emi_amount, loan.interest_rate, 0)
    ELSE [interest |-> 0, principal |-> 0, balance |-> 0]

\* rate a is higher than rate b
RateAbove(a, b) == a[1] * b[2] > b[1] * a[2]

\* twice the deduction weight: 1.0 for an interest deduction, 0.5 for a
\* principal-only deduction, 0 without deduction
DeductionWeightTwice(loan) ==
  IF loan.eligible_24b \/ loan.eligible_80e THEN 2
  ELSE IF loan.eligible_80c THEN 1
  ELSE 0

\* nominal rate * (1 - tax bracket * deduction weight) + foreclosure charge
EffectiveRate(loan, taxBracket) ==
  << loan.interest_rate[1] * (200 - taxBracket * DeductionWeightTwice(loan))
       + 200 * loan.foreclosure_charges_pct * loan.interest_rate[2],
     200 * loan.interest_rate[2] >>

\* the balance is paid off by that many scheduled EMIs at most
PayableWithin(balance, loan, emis) ==
  LET within[left \in Int, n \in Nat] ==
        IF left <= 0 THEN TRUE
        ELSE IF n = 0 THEN FALSE
        ELSE within[AmortizationMonth(left, loan.emi_amount, loan.interest_rate, 0).balance,
                    n - 1]
  IN  within[balance, emis]

\* SmartHybrid without the quick-win promotion
PriorityKey_NoQuickWin(strategy, loan, balance, taxBracket) ==
  CASE strategy = "avalanche" ->
         [quick |-> FALSE, rate |-> loan.interest_rate, balance |-> 0]
    [] strategy = "snowball" ->
         [quick |-> FALSE, rate |-> <<0, 1>>, balance |-> balance]
    [] strategy = "smart_hybrid" ->
         [quick |-> FALSE, rate |-> EffectiveRate(loan, taxBracket), balance |-> 0]
    [] OTHER -> [quick |-> FALSE, rate |-> <<0, 1>>, balance |-> 0]

\* what a strategy ranks a loan by: quick wins first (SmartHybrid), then the
\* higher rate (Avalanche: nominal, SmartHybrid: effective), then the lower
\* balance (Snowball)
PriorityKey(strategy, loan, balance, taxBracket) ==
  CASE strategy = "avalanche" ->
         [quick |-> FALSE, rate |-> loan.interest_rate, balance |-> 0]
    [] strategy = "snowball" ->
         [quick |-> FALSE, rate |-> <<0, 1>>, balance |-> balance]
    [] strategy = "smart_hybrid" ->
         [quick |-> PayableWithin(balance, loan, QuickWinEmis),
          rate |-> EffectiveRate(loan, taxBracket), balance |-> 0]
    [] OTHER -> [quick |-> FALSE, rate |-> <<0, 1>>, balance |-> 0]

\* loans served in insertion order whatever their keys
Before_InsertionOrder(keys, j, k) == j < k

\* loan j is served before loan k (j # k); ties go by insertion order
Before(keys, j, k) ==
  \/ keys[j].quick /\ ~keys[k].quick
  \/ /\ keys[j].quick = keys[k].quick
     /\ \/ RateAbove(keys[j].rate, keys[k].rate)
        \/ /\ ~RateAbove(keys[k].rate, keys[j].rate)
           /\ \/ keys[j].balance < keys[k].balance
              \/ keys[j].balance = keys[k].balance /\ j < k

PriorityKeys == Seq([quick : BOOLEAN, rate : Seq(Nat), balance : Nat])

\* the loans of S in the order their keys rank them
RankedOrderFn[keys \in PriorityKeys, S \in SUBSET Nat] ==
  Mat([p \in 1..Cardinality(S) |->
         CHOOSE k \in S : Cardinality({j \in S \ {k} : Before(keys, j, k)}) = p - 1],
      Cardinality(S))

RankedOrder(keys, S) == RankedOrderFn[keys, S]

\* the loans of S in the order the strategy serves them
PriorityOrder(strategy, loans, balances, taxBracket, S) ==
  RankedOrder(Mat([k \in DOMAIN loans |->
                     PriorityKey(strategy, loans[k], balances[k], taxBracket)], Len(loans)),
              S)

\* an allocation that hands each loan of the order the whole budget
RECURSIVE PayInOrder_NoCarry(_, _, _)
PayInOrder_NoCarry(order, balances, budget) ==
  IF order = << >> THEN [k \in DOMAIN balances |-> 0]
  ELSE [PayInOrder_NoCarry(Tail(order), balances, budget)
          EXCEPT ![Head(order)] = Min(budget, balances[Head(order)])]

\* step 3: one loan at a time until the budget is exhausted or the loan is paid
\* off; what exceeds the balance carries over to the next loan
PayInOrderFn[order \in Seq(Nat), balances \in Seq(Nat), budget \in Nat] ==
  IF order = << >> THEN [k \in DOMAIN balances |-> 0]
  ELSE [PayInOrderFn[Tail(order), balances, budget - Min(budget, balances[Head(order)])]
          EXCEPT ![Head(order)] = Min(budget, balances[Head(order)])]

PayInOrder(order, balances, budget) == PayInOrderFn[order, balances, budget]

\* the largest balance of S, the first of them in insertion order
LargestBalance(balances, S) ==
  CHOOSE k \in S :
    \A j \in S : balances[j] < balances[k] \/ (balances[j] = balances[k] /\ k <= j)

\* Proportional: each loan of S its share of the budget by balance, the
\* remainder of the integer division added to the largest balance
ProportionalSplit(balances, S, budget) ==
  LET total == SumOver(balances, S)
      share == [k \in S |-> (budget * balances[k]) \div total]
      remainder == budget - SumOver(share, S)
  IN  [k \in DOMAIN balances |->
         IF k \notin S THEN 0
         ELSE Min(share[k], balances[k])
                + (IF k = LargestBalance(balances, S) THEN remainder ELSE 0)]

\* the extra payment of the month for every loan
ExtraAllocation(strategy, loans, balances, taxBracket, S, budget) ==
  IF S = {} THEN [k \in DOMAIN balances |-> 0]
  ELSE IF strategy = "proportional" THEN ProportionalSplit(balances, S, budget)
  ELSE PayInOrder(PriorityOrder(strategy, loans, balances, taxBracket, S), balances, budget)

\* step 4: the penalty is a percentage of the extra payment applied
PrepaymentPenalty(extra, penaltyPct) == RoundDiv(extra * penaltyPct, 100)

\* a penalty taken on the outstanding balance instead of the extra payment
AfterExtra_PenaltyOnBalance(balance, extra, penaltyPct) ==
  IF extra > 0
    THEN Max(0, balance - (extra - RoundDiv(balance * penaltyPct, 100)))
    ELSE balance

\* the balance after the extra payment, of which the penalty consumes a part
AfterExtra(balance, extra, penaltyPct) ==
  Max(0, balance - (extra - PrepaymentPenalty(extra, penaltyPct)))

\* a pool that holds the EMIs freed in the month only
FreedEmiPoolAfter_NotRunning(freedEmiPool, loans, closing) ==
  SumOver([k \in DOMAIN loans |-> loans[k].emi_amount], closing)

\* step 5: the EMIs of the loans closing in the month join the running pool,
\* which step 1 of the following month reads
FreedEmiPoolAfter(freedEmiPool, loans, closing) ==
  freedEmiPool + SumOver([k \in DOMAIN loans |-> loans[k].emi_amount], closing)

\* step 6: the hard cap on the month counter
CapReached_OffByOne(months) == months > MaxSimMonths

CapReached(months) == months >= MaxSimMonths

\* a loan's snapshot at the start of a run
NewSnapshot(loan) ==
  [balance |-> loan.outstanding_principal,
   status |-> IF loan.outstanding_principal > 0 THEN "active" ELSE "closed",
   payoff_month |-> 0]

Active(snapshots) == {k \in DOMAIN snapshots : snapshots[k].status = "active"}

NoLedger ==
  [month |-> 0, budget |-> 0, pool |-> 0, due |-> 0, scheduled |-> 0, extra |-> 0,
   owed |-> << >>, allocation |-> << >>]

\* a comparison that puts the months ahead of the interest
BetterResult_MonthsFirst(results, p, q) ==
  \/ results[p].total_months < results[q].total_months
  \/ /\ results[p].total_months = results[q].total_months
     /\ \/ results[p].total_interest_paid < results[q].total_interest_paid
        \/ results[p].total_interest_paid = results[q].total_interest_paid /\ p < q

\* interest saved against the baseline, months, canonical position
BetterResult(results, p, q) ==
  \/ results[p].total_interest_paid < results[q].total_interest_paid
  \/ /\ results[p].total_interest_paid = results[q].total_interest_paid
     /\ \/ results[p].total_months < results[q].total_months
        \/ results[p].total_months = results[q].total_months /\ p < q

\* the recommendation: greatest interest saved, then fewer months, then
\* canonical order
Recommended(results) ==
  results[CHOOSE p \in 2..Len(results) :
            \A q \in (2..Len(results)) \ {p} : BetterResult(results, p, q)].strategy_name

(***************************************************************************)
(* validators.ts: loanSchema.  A JavaScript value is a record of its kind, *)
(* its number num / den, its string and the length of the string; a loan   *)
(* record maps the field names of the schema to values.                    *)
(***************************************************************************)
Undefined == [kind |-> "undefined", num |-> 0, den |-> 1, text |-> "", length |-> 0]
Num(n, d) == [kind |-> "number", num |-> n, den |-> d, text |-> "", length |-> 0]
Str(t, n) == [kind |-> "string", num |-> 0, den |-> 1, text |-> t, length |-> n]
Bool(b) == [kind |-> "boolean", num |-> IF b THEN 1 ELSE 0, den |-> 1, text |-> "",
            length |-> 0]

EligibilityFields == {"eligible_80c", "eligible_24b", "eligible_80e", "eligible_80eea"}
ChargeFields == {"prepayment_penalty_pct", "foreclosure_charges_pct"}
TenureFields == {"tenure_months", "remaining_tenure_months"}

LoanFields ==
  {"bank_name", "loan_type", "principal_amount", "outstanding_principal", "interest_rate",
   "interest_rate_type", "emi_amount", "emi_due_date"}
    \cup TenureFields \cup ChargeFields \cup EligibilityFields

LoanTypes == {"home", "personal", "car", "education", "gold", "credit_card"}
RateTypes == {"floating", "fixed", "hybrid"}

IsNumber(v) == v.kind = "number"
IsInteger(v) == v.num % v.den = 0
IsPositive(v) == v.num > 0
AtLeast(v, k) == v.num >= k * v.den

\* a maximum that is never checked
AtMost_Unchecked(v, k) == TRUE

AtMost(v, k) == v.num <= k * v.den

\* .default(...): the value that stands in for undefined
DefaultOf(field) ==
  CASE field = "interest_rate_type" -> Str("floating", 8)
    [] field \in ChargeFields -> Num(0, 1)
    [] field \in EligibilityFields -> Bool(FALSE)
    [] OTHER -> Undefined

WithDefault(field, v) == IF v = Undefined THEN DefaultOf(field) ELSE v

\* lines 113-128: the checks of one field
FieldAccepts(field, v) ==
  CASE field = "bank_name" -> v.kind = "string" /\ v.length >= 1 /\ v.length <= 50
    [] field = "loan_type" -> v.kind = "string" /\ v.text \in LoanTypes
    [] field = "principal_amount" -> IsNumber(v) /\ IsPositive(v)
    [] field = "outstanding_principal" -> IsNumber(v) /\ AtLeast(v, 0)
    [] field = "interest_rate" -> IsNumber(v) /\ AtLeast(v, 0) /\ AtMost(v, 50)
    [] field = "interest_rate_type" -> v.kind = "string" /\ v.text \in RateTypes
    [] field \in TenureFields ->
         IsNumber(v) /\ IsInteger(v) /\ IsPositive(v) /\ AtMost(v, 600)
    [] field = "emi_amount" -> IsNumber(v) /\ IsPositive(v)
    [] field = "emi_due_date" ->
         \/ v = Undefined
         \/ IsNumber(v) /\ IsInteger(v) /\ AtLeast(v, 1) /\ AtMost(v, 28)
    [] field \in ChargeFields -> IsNumber(v) /\ AtLeast(v, 0)
    [] OTHER -> v.kind = "boolean"

NoRecord == [f \in LoanFields |-> Undefined]
NotParsed == [success |-> FALSE, data |-> NoRecord, issues |-> {}]

\* loanSchema.parse: the record with the defaults filled in when every field
\* passes, a failure naming the fields at fault when not
loanSchemaParse(input) ==
  LET data == [f \in LoanFields |-> WithDefault(f, input[f])]
      issues == {f \in LoanFields : ~FieldAccepts(f, data[f])}
  IN  IF issues = {} THEN [success |-> TRUE, data |-> data, issues |-> {}]
      ELSE [success |-> FALSE, data |-> NoRecord, issues |-> issues]

(***************************************************************************)
(* api.ts: what the transport hands to the response interceptor, and the   *)
(* interceptor's error handler                                             *)
(***************************************************************************)
Response(status) == [kind |-> "response", hasResponse |-> TRUE, status |-> status]
ErrorWith(status) == [kind |-> "error", hasResponse |-> TRUE, status |-> status]
NetworkError == [kind |-> "error", hasResponse |-> FALSE, status |-> 0]
NoReply == [kind |-> "none", hasResponse |-> FALSE, status |-> 0]

TooManyRequests == 429
ServerErrors == 500
Unauthorized == 401

RateLimitToast == [type |-> "warning", message |-> "Too many requests. Please wait a moment."]
ServerErrorToast == [type |-> "error", message |-> "Server error. Please try again later."]
NetworkErrorToast == [type |-> "error", message |-> "Network error. Check your connection."]

\* useToastStore.getState().addToast
addToast(toasts, toast) == Append(toasts, toast)

\* an error handler that takes every status from 400 up for a server error
ToastsAfter_ClientErrors(toasts, error) ==
  IF error.hasResponse
    THEN IF error.status = TooManyRequests THEN addToast(toasts, RateLimitToast)
         ELSE IF error.status >= 400 THEN addToast(toasts, ServerErrorToast)
         ELSE toasts
    ELSE addToast(toasts, NetworkErrorToast)

\* part_004 lines 17-26
ToastsAfter(toasts, error) ==
  IF error.hasResponse
    THEN IF error.status = TooManyRequests THEN addToast(toasts, RateLimitToast)
         ELSE IF error.status >= ServerErrors THEN addToast(toasts, ServerErrorToast)
         ELSE toasts
    ELSE addToast(toasts, NetworkErrorToast)

\* part_003 lines 24-26
HrefAfter(href, error) ==
  IF error.hasResponse /\ error.status = Unauthorized THEN "/login" ELSE href

Pending == [state |-> "pending", value |-> NoReply]

(***************************************************************************)
(* StepSelectLoans.tsx and StepSetBudget: the handlers as functions of the *)
(* props and state of the render they belong to                            *)
(***************************************************************************)
\* selected.includes(id)
Includes(selected, id) == \E k \in 1..Len(selected) : selected[k] = id

\* loans.map((l) => l.id)
LoanIds(loans) == [k \in 1..Len(loans) |-> loans[k].id]

\* a toggleLoan that adds the id whether it is selected or not
toggleLoan_AlwaysAdds(selected, id) == Append(selected, id)

\* StepSelectLoans.tsx lines 11-17: the argument of onChange
toggleLoan(selected, id) ==
  IF Includes(selected, id)
    THEN SelectSeq(selected, LAMBDA sel : sel # id)
    ELSE Append(selected, id)

\* lines 19-21: the argument of onChange
toggleAll(selected, loans) ==
  IF Len(selected) = Len(loans) THEN << >> ELSE LoanIds(loans)

DaysPerMonth == 30
InitialDailySaving == 100

\* a handleDailyChange that reports the new amount in either mode
handleDailyChange_AnyMode(gullakMode, monthlyExtra, value) == value * DaysPerMonth

\* part_012 lines 58-61: the monthly extra after handleDailyChange(value)
handleDailyChange(gullakMode, monthlyExtra, value) ==
  IF gullakMode THEN value * DaysPerMonth ELSE monthlyExtra

\* lines 51-56: the monthly extra after handleGullakToggle
handleGullakToggle(gullakMode, monthlyExtra, dailySaving) ==
  IF ~gullakMode THEN dailySaving * DaysPerMonth ELSE monthlyExtra

\* lines 101-117: the monthly slider is rendered outside Gullak mode
MonthlySliderShown(gullakMode) == ~gullakMode

(***************************************************************************)
(* ScanDocumentPage.tsx: the page's state, its status query and its effect  *)
(***************************************************************************)
\* useState<string | null>(null), line 21
NoJob == "null"
\* extracted_fields: ExtractedField[] | null (types/index.ts line 69): null is
\* the empty option, an array the option holding it
Null == << >>
Array(fields) == <<fields>>
\* the data of a query that has not fetched yet
NoData == [status |-> "undefined", extracted_fields |-> Null]
\* a job the server has not been sent
NotUploaded == [status |-> "absent", extracted_fields |-> Null]

\* line 44
PollMs == 2000
\* line 44: refetchInterval false
Off == 0

\* lines 42-45
refetchInterval(data) ==
  IF data.status = "processing" \/ data.status = "uploaded" THEN PollMs ELSE Off

\* useState<Record<string, string>>({}), line 22
NoFields == [n \in {} |-> ""]

\* lines 83-84
InitialFields(extracted) ==
  [n \in {extracted[k].field_name : k \in 1..Len(extracted)} |->
     LET last == CHOOSE k \in 1..Len(extracted) :
                   /\ extracted[k].field_name = n
                   /\ \A m \in (k + 1)..Len(extracted) : extracted[m].field_name # n
     IN  extracted[last].value]

\* lines 81-87: the effect that runs when scanStatus changes
InitializeEditFields(scanStatus, editFields) ==
  IF scanStatus.extracted_fields # Null /\ DOMAIN editFields = {}
    THEN InitialFields(scanStatus.extracted_fields[1])
    ELSE editFields

\* line 141: setEditFields((prev) => ({ ...prev, [field.field_name]: value }))
SetField(editFields, name, value) ==
  [n \in DOMAIN editFields \cup {name} |-> IF n = name THEN value ELSE editFields[n]]

(***************************************************************************)
(* State                                                                   *)
(***************************************************************************)
VARIABLES
  pc,                 \* position of the running call
  principal, annualRate, tenureMonths, monthlyPrepayment,   \* arguments
  emiResult, totalInterest,                                 \* results of the calculator calls
  emiBudget, affordable,                                    \* calculateAffordability: emi, result
  saved,                                                    \* calculateInterestSaved: result
  emi, month, balance, schedule, cumulativeInterest,        \* generateAmortization locals
  low, high, i, mid, calcEmi, recoveredRate,                \* reverseEMIRate locals and result
  loans, monthlyExtra, lumpSums, taxBracket,                \* optimizer input
  strategy, snapshots, simMonth, freedEmiPool,              \* the simulation run under way
  totalInterestPaid, payoffOrder, ledger,
  results, recommended,                                     \* finished runs, recommendation
  parked,                                                   \* a run set aside for another
  record, parsed,                                           \* loanSchema.parse: input, outcome
  authEnabled, requests, reply, outcome, toasts, href,      \* api.ts: build, request, effects
  selected,                                                 \* StepSelectLoans: the selected prop
  gullakMode, dailySaving,                                  \* StepSetBudget: component state
  jobId, editFields,                                        \* ScanDocumentPage: component state
  uploading, drops,                                         \* uploads in flight, files dropped
  serverJobs,                                               \* the scan jobs at the server
  queryData, fetching, pollInterval,                        \* the status queries by job id
  finalShown                                                \* a final status has been rendered

argVars == <<principal, annualRate, tenureMonths, monthlyPrepayment>>
affordVars == <<emiBudget, affordable>>
calcVars == <<emiResult, totalInterest, affordVars, saved>>
amortVars == <<emi, month, balance, schedule, cumulativeInterest>>
solveVars == <<low, high, i, mid, calcEmi, recoveredRate>>
simArgs == <<loans, monthlyExtra, lumpSums, taxBracket>>
simRun == <<strategy, snapshots, simMonth, freedEmiPool, totalInterestPaid, payoffOrder, ledger>>
simVars == <<simArgs, simRun, results, recommended, parked>>
formVars == <<record, parsed>>
apiVars == <<authEnabled, requests, reply, outcome, toasts, href>>
wizardVars == <<selected, gullakMode, dailySaving>>
scanVars == <<jobId, editFields, uploading, drops, serverJobs, queryData, fetching, pollInterval,
              finalShown>>
pageVars == <<apiVars, wizardVars, scanVars>>
vars == <<pc, argVars, calcVars, amortVars, solveVars, simVars, formVars, pageVars>>

NoMoney == <<0, 1>>

\* calculateInterestSaved not yet called
NoSaving == [interestSaved |-> 0, monthsSaved |-> 0]

CalcIdle ==
  /\ emiResult = NoMoney /\ totalInterest = 0 /\ emiBudget = NoMoney /\ affordable = NoMoney
  /\ saved = NoSaving
AmortIdle ==
  emi = NoMoney /\ month = 0 /\ balance = 0 /\ schedule = << >> /\ cumulativeInterest = 0
NoRate == <<0, 100>>
SolveIdle ==
  /\ low = SearchLow /\ high = SearchHigh /\ i = 0
  /\ mid = SearchLow /\ calcEmi = NoMoney /\ recoveredRate = NoRate
RunIdle ==
  /\ strategy = "none" /\ snapshots = << >> /\ simMonth = 0 /\ freedEmiPool = 0
  /\ totalInterestPaid = 0 /\ payoffOrder = << >> /\ ledger = NoLedger
  /\ parked = << >>
FormIdle == record = NoRecord /\ parsed = NotParsed
ApiIdle ==
  /\ authEnabled = FALSE /\ requests = 0 /\ reply = NoReply /\ outcome = Pending
  /\ toasts = << >> /\ href = "/"
WizardIdle == selected = << >> /\ gullakMode = FALSE /\ dailySaving = InitialDailySaving
ScanIdle ==
  /\ jobId = NoJob /\ editFields = NoFields /\ uploading = {} /\ drops = 0
  /\ serverJobs = << >> /\ queryData = << >>
  /\ fetching = {} /\ pollInterval = Off /\ finalShown = FALSE
PageIdle == ApiIdle /\ WizardIdle /\ ScanIdle
SimIdle ==
  /\ loans = << >> /\ monthlyExtra = 0 /\ lumpSums = << >> /\ taxBracket = 0
  /\ RunIdle /\ results = << >> /\ recommended = "none"

(***************************************************************************)
(* Inputs                                                                  *)
(***************************************************************************)
MaxPrincipal == 4
MaxTenure == 4

\* annual rates in percent: 0, 0.01, 1, 8.5, 10, 12, 20, 50
Rates == {<<0, 1>>, <<1, 100>>, <<1, 1>>, <<17, 2>>, <<10, 1>>, <<12, 1>>, <<20, 1>>, <<50, 1>>}

SmallPrincipals == (-1..MaxPrincipal) \cup {100, 1000}
SmallTenures == -1..MaxTenure

\* the loans of emi-math.test.ts
Benchmarks ==
  { <<5000000, <<17, 2>>, 240>>, <<1200000, <<0, 1>>, 120>>, <<3000000, <<10, 1>>, 180>> }

CalcInputs == (SmallPrincipals \X Rates \X SmallTenures) \cup Benchmarks

(***************************************************************************)
(* The calculator: calculateEMI, then calculateTotalInterest               *)
(***************************************************************************)
InitCalc ==
  /\ \E in \in CalcInputs :
        principal = in[1] /\ annualRate = in[2] /\ tenureMonths = in[3]
  /\ monthlyPrepayment = 0
  /\ pc = "call"
  /\ CalcIdle /\ AmortIdle /\ SolveIdle /\ SimIdle /\ FormIdle /\ PageIdle

CallCalculateEMI ==
  /\ pc = "call"
  /\ emiResult' = calculateEMI(principal, annualRate, tenureMonths)
  /\ pc' = "emi"
  /\ UNCHANGED <<argVars, formVars, pageVars, totalInterest, affordVars, saved, amortVars, solveVars, simVars>>

CallCalculateTotalInterest ==
  /\ pc = "emi"
  /\ totalInterest' = calculateTotalInterest(principal, annualRate, tenureMonths)
  /\ pc' = "done"
  /\ UNCHANGED <<argVars, formVars, pageVars, emiResult, affordVars, saved, amortVars, solveVars, simVars>>

\* the EMIs a caller asks the affordable principal for
EmiBudgets == {<<0 - 1, 1>>, <<0, 1>>, <<1, 1>>, <<100, 3>>, <<100, 1>>}

CallCalculateAffordability ==
  /\ pc = "call"
  /\ \E e \in EmiBudgets :
        /\ emiBudget' = e
        /\ affordable' = calculateAffordability(e, annualRate, tenureMonths)
  /\ pc' = "afford"
  /\ UNCHANGED <<argVars, formVars, pageVars, emiResult, totalInterest, saved, amortVars, solveVars, simVars>>

\* the round trip of emi-math.test.ts lines 118-121: the EMI just computed is
\* handed back with the same rate and tenure
InverseCalculateAffordability ==
  /\ pc = "emi"
  /\ emiBudget' = emiResult
  /\ affordable' = calculateAffordability(emiResult, annualRate, tenureMonths)
  /\ pc' = "inverse"
  /\ UNCHANGED <<argVars, formVars, pageVars, emiResult, totalInterest, saved, amortVars, solveVars, simVars>>

NextCalc ==
  \/ CallCalculateEMI
  \/ CallCalculateTotalInterest
  \/ CallCalculateAffordability
  \/ InverseCalculateAffordability

SpecCalc == InitCalc /\ [][NextCalc]_vars

(***************************************************************************)
(* Claims about the calculator                                             *)
(***************************************************************************)
RateInRange(rate, lo, hi) == lo * rate[2] <= rate[1] /\ rate[1] <= hi * rate[2]

\* The specification's formula P r (1+r)^n / ((1+r)^n - 1), r = rate / 1200,
\* as the fraction FormulaNum / FormulaDen.
FormulaNum(P, rate, n) ==
  BigMul(BigFromInt(P * rate[1]),
         BigPow(BigFromInt(MonthsPerYearPct * rate[2] + rate[1]), n))

FormulaDen(rate, n) ==
  BigMul(BigFromInt(MonthsPerYearPct * rate[2]),
         BigSub(BigPow(BigFromInt(MonthsPerYearPct * rate[2] + rate[1]), n),
                BigPow(BigFromInt(MonthsPerYearPct * rate[2]), n)))

\* e is num / den rounded half-up: e <= num/den + 1/2 < e + 1
IsHalfUpRounding(e, num, den) ==
  LET twice == BigAdd(BigMul(num, <<2>>), den)
  IN  /\ e >= 0
      /\ BigCmp(BigMul(BigFromInt(2 * e), den), twice) <= 0
      /\ BigCmp(twice, BigMul(BigFromInt(2 * e + 2), den)) < 0

IsSbiBenchmark == principal = 5000000 /\ annualRate = <<17, 2>> /\ tenureMonths = 240

\* C1: for principal > 0, tenureMonths > 0 and 0 < annualRate <= 50, calculateEMI
\* returns the reducing-balance formula rounded half-up to a whole unit, and
\* calculateEMI(5000000, 8.5, 240) = 43391.
C1_EmiFormula ==
  (pc \in {"emi", "done"} /\ principal > 0 /\ tenureMonths > 0
     /\ annualRate[1] > 0 /\ RateInRange(annualRate, 0, 50))
  => /\ emiResult[2] = 1
     /\ IsHalfUpRounding(emiResult[1], FormulaNum(principal, annualRate, tenureMonths),
                          FormulaDen(annualRate, tenureMonths))
     /\ (IsSbiBenchmark => emiResult = <<43391, 1>>)

C1_Witness == pc = "emi" /\ IsSbiBenchmark /\ emiResult = <<43391, 1>>

\* C2: for annualRate = 0, principal > 0 and tenureMonths > 0, calculateEMI returns
\* principal / tenureMonths rounded to the nearest whole unit, a whole number.
C2_ZeroRateRounded ==
  (pc \in {"emi", "done"} /\ principal > 0 /\ tenureMonths > 0 /\ annualRate[1] = 0)
  => /\ emiResult[1] % emiResult[2] = 0
     /\ emiResult[1] \div emiResult[2] = RoundDiv(principal, tenureMonths)

\* C3: for principal > 0, 0 <= rate <= 50 and tenure > 0, calculateTotalInterest is
\* calculateEMI * tenure - principal rounded to a whole unit, so the two differ
\* by no more than one unit per month.
C3_TotalInterestAgrees ==
  (pc = "done" /\ principal > 0 /\ tenureMonths > 0 /\ RateInRange(annualRate, 0, 50))
  => LET den == emiResult[2]
         exact == emiResult[1] * tenureMonths - principal * den   \* (emi*n - P) * den
     IN  /\ 2 * totalInterest * den <= 2 * exact + den
         /\ 2 * exact + den < 2 * (totalInterest + 1) * den
         /\ Abs(totalInterest * den - exact) <= tenureMonths * den

C3_Witness ==
  pc = "done" /\ IsSbiBenchmark /\ emiResult = <<43391, 1>> /\ totalInterest = 5413840

(***************************************************************************)
(* generateAmortization, one loop pass per step                            *)
(***************************************************************************)
Prepayments == {0, 1, 50}

\* loans that run long at a high rate
LongLoans == { <<100000, <<50, 1>>, 240>>, <<100000, <<12, 1>>, 120>> }

AmortInputs ==
  ((SmallPrincipals \X Rates \X SmallTenures) \X Prepayments)
    \cup (Benchmarks \X {0, 5000})
    \cup (LongLoans \X {0})

InitAmort ==
  /\ \E in \in AmortInputs :
        /\ principal = in[1][1] /\ annualRate = in[1][2] /\ tenureMonths = in[1][3]
        /\ monthlyPrepayment = in[2]
  /\ pc = "call"
  /\ CalcIdle /\ AmortIdle /\ SolveIdle /\ SimIdle /\ FormIdle /\ PageIdle

\* lines 36-42: the early return, or the locals before the loop
AmortEnter ==
  /\ pc = "call"
  /\ IF principal <= 0 \/ tenureMonths <= 0
       THEN pc' = "done" /\ UNCHANGED amortVars
       ELSE LET e == calculateEMI(principal, annualRate, tenureMonths)
            IN  /\ emi' = e
                /\ balance' = principal * e[2]
                /\ schedule' = << >>
                /\ cumulativeInterest' = 0
                /\ month' = 1
                /\ pc' = "loop"
  /\ UNCHANGED <<argVars, formVars, pageVars, calcVars, solveVars, simVars>>

\* lines 44-70: one pass of the loop body
AmortIterate ==
  /\ pc = "loop"
  /\ LoopContinues(month, tenureMonths, balance)
  /\ LET m == AmortizationMonth(balance, emi[1], annualRate, monthlyPrepayment * emi[2])
     IN  /\ balance' = m.balance
         /\ cumulativeInterest' = cumulativeInterest + m.interest
         /\ schedule' = Append(schedule,
              [month |-> month, emi |-> m.principal + m.interest, principal |-> m.principal,
               interest |-> m.interest, balance |-> m.balance,
               cumulativeInterest |-> cumulativeInterest + m.interest])
         /\ IF m.balance <= 0
              THEN pc' = "done" /\ month' = month
              ELSE pc' = "loop" /\ month' = month + 1
  /\ UNCHANGED <<argVars, formVars, pageVars, calcVars, emi, solveVars, simVars>>

\* line 44 false, line 72
AmortReturn ==
  /\ pc = "loop"
  /\ ~LoopContinues(month, tenureMonths, balance)
  /\ pc' = "done"
  /\ UNCHANGED <<argVars, formVars, pageVars, calcVars, amortVars, solveVars, simVars>>

\* lines 81-88 of calculateInterestSaved, around the schedule that its call of
\* generateAmortization (line 82) has returned
InterestSavedReturn ==
  /\ pc = "done"
  /\ saved' = calculateInterestSaved(principal, annualRate, tenureMonths, schedule, emi[2])
  /\ pc' = "saved"
  /\ UNCHANGED <<argVars, formVars, pageVars, emiResult, totalInterest, affordVars, amortVars,
               solveVars, simVars>>

NextAmort == AmortEnter \/ AmortIterate \/ AmortReturn \/ InterestSavedReturn

SpecAmort == InitAmort /\ [][NextAmort]_vars

\* the loop is a plain sequential computation: it always takes its next step
FairAmort == SpecAmort /\ WF_vars(NextAmort)

\* a caller of emi-math.ts: any one of its functions on the same arguments
NextEmiMath == NextCalc \/ NextAmort

SpecEmiMath == InitAmort /\ [][NextEmiMath]_vars

(***************************************************************************)
(* Claims about generateAmortization                                       *)
(***************************************************************************)
ResidualTolerance == 500

LastEntry == schedule[Len(schedule)]

ScheduleWellFormed ==
  /\ Len(schedule) <= Max(tenureMonths, 0)
  /\ \A k \in 1..Len(schedule) : schedule[k].month = k
  /\ \A k \in 1..(Len(schedule) - 1) : schedule[k].balance > 0

\* C4: generateAmortization always terminates; its schedule has at most
\* tenureMonths entries, numbered 1, 2, ..., k in order, and no entry follows an
\* entry whose balance is zero.
C4_AmortTerminates == [](ScheduleWellFormed) /\ <>(pc = "done")

C4_Witness ==
  /\ pc = "done" /\ schedule # << >>
  /\ Len(schedule) < tenureMonths
  /\ LastEntry.balance = 0 /\ LastEntry.month = Len(schedule)

\* C5: in every schedule (principal > 0, 0 <= rate <= 50, tenure > 0, prepayment
\* >= 0) the balance never rises from one entry to the next, starts no higher than
\* the principal and is never negative.
C5_BalanceNonIncreasing ==
  \A k \in 1..Len(schedule) :
     /\ schedule[k].balance >= 0
     /\ schedule[k].balance <= (IF k = 1 THEN principal * emi[2] ELSE schedule[k - 1].balance)

C5_Witness ==
  /\ pc = "done" /\ monthlyPrepayment > 0 /\ Len(schedule) >= 2
  /\ schedule[1].balance < principal * emi[2]
  /\ schedule[2].balance < schedule[1].balance
  /\ LastEntry.balance = 0

\* C6: with no prepayment, for principal > 0, 0 <= rate <= 50 and 1 <= tenure <= 600,
\* the balance of the final entry is at most 500 currency units.
C6_FinalBalanceWithinTolerance ==
  (pc = "done" /\ principal > 0 /\ RateInRange(annualRate, 0, 50)
     /\ tenureMonths >= 1 /\ tenureMonths <= 600 /\ monthlyPrepayment = 0)
  => LastEntry.balance <= ResidualTolerance * emi[2]

(***************************************************************************)
(* reverseEMIRate, one bisection step per step                             *)
(***************************************************************************)
\* principals large enough for a whole-unit EMI to tell rates apart
LargePrincipals == {50000, 1000000, 5000000}

\* the round trips of emi-math.test.ts
RoundTripLoans == { <<5000000, <<17, 2>>, 240>>, <<3000000, <<10, 1>>, 180>> }

\* reverseEMIRate(P, calculateEMI(P, r, n), n)
RoundTripInputs ==
  ((SmallPrincipals \cup LargePrincipals) \X (Rates \ {<<0, 1>>}) \X (SmallTenures \cup {12}))
    \cup RoundTripLoans

\* reverseEMIRate(P, emi, n) for an emi that no rate of the interval produces,
\* or that every rate produces
TargetInputs ==
  {0, 100, 1000000} \X {<<0, 1>>, <<5, 1>>, <<100, 3>>, <<1000000000, 1>>} \X {0, 1, 2}

InitSolve ==
  /\ \/ \E in \in RoundTripInputs :
          /\ principal = in[1] /\ annualRate = in[2] /\ tenureMonths = in[3]
          /\ emi = NoMoney /\ pc = "call"
     \/ \E in \in TargetInputs :
          /\ principal = in[1] /\ emi = in[2] /\ tenureMonths = in[3]
          /\ annualRate = <<0, 1>> /\ pc = "solve"
  /\ monthlyPrepayment = 0
  /\ month = 0 /\ balance = 0 /\ schedule = << >> /\ cumulativeInterest = 0
  /\ CalcIdle /\ SolveIdle /\ SimIdle /\ FormIdle /\ PageIdle

\* the emi argument of the round trip
RoundTripCalculateEMI ==
  /\ pc = "call"
  /\ emi' = calculateEMI(principal, annualRate, tenureMonths)
  /\ pc' = "solve"
  /\ UNCHANGED <<argVars, formVars, pageVars, calcVars, month, balance, schedule, cumulativeInterest,
               solveVars, simVars>>

\* line 92
SolveEnter ==
  /\ pc = "solve"
  /\ low' = SearchLow /\ high' = SearchHigh /\ i' = 0
  /\ pc' = "loop"
  /\ UNCHANGED <<argVars, formVars, pageVars, calcVars, amortVars, mid, calcEmi, recoveredRate, simVars>>

\* lines 93-97: one pass of the loop body
SolveIterate ==
  /\ pc = "loop"
  /\ SolverLoopContinues(i)
  /\ mid' = Midpoint(low, high)
  /\ calcEmi' = calculateEMIBig(principal, mid', tenureMonths)
  /\ IF Converged(calcEmi', emi)
       THEN /\ recoveredRate' = RoundToHundredths(mid')
            /\ pc' = "done"
            /\ UNCHANGED <<low, high, i>>
       ELSE /\ IF RateTooLow(calcEmi', emi)
                 THEN low' = mid' /\ high' = Unmoved(high)
                 ELSE low' = Unmoved(low) /\ high' = mid'
            /\ i' = i + 1
            /\ pc' = "loop"
            /\ UNCHANGED recoveredRate
  /\ UNCHANGED <<argVars, formVars, pageVars, calcVars, amortVars, simVars>>

\* line 93 false, line 99
SolveReturn ==
  /\ pc = "loop"
  /\ ~SolverLoopContinues(i)
  /\ recoveredRate' = RoundToHundredths(Midpoint(low, high))
  /\ pc' = "done"
  /\ UNCHANGED <<argVars, formVars, pageVars, calcVars, amortVars, low, high, i, mid, calcEmi, simVars>>

NextSolve == RoundTripCalculateEMI \/ SolveEnter \/ SolveIterate \/ SolveReturn

SpecSolve == InitSolve /\ [][NextSolve]_vars

\* the solver is a plain sequential computation: it always takes its next step
FairSolve == SpecSolve /\ WF_vars(NextSolve)

(***************************************************************************)
(* Claims about reverseEMIRate                                             *)
(***************************************************************************)
\* |x - r| <= 0.1 for rates x = <<num, den>> and r = <<num, den>>
WithinTenth(x, r) == 10 * Abs(x[1] * r[2] - r[1] * x[2]) <= x[2] * r[2]

RateMinusTenth(rate) == <<10 * rate[1] - rate[2], 10 * rate[2]>>
RatePlusTenth(rate) == <<10 * rate[1] + rate[2], 10 * rate[2]>>

\* the run is a round trip from a rate in [1, 20]
IsRoundTrip ==
  pc = "done" /\ principal > 0 /\ tenureMonths > 0 /\ RateInRange(annualRate, 1, 20)

\* a tenth of a point either way moves the EMI by more than the tolerance of
\* the convergence test
EmiTellsTenthApart ==
  /\ calculateEMI(principal, RateMinusTenth(annualRate), tenureMonths)[1]
       < emi[1] - EmiTolerance
  /\ calculateEMI(principal, RatePlusTenth(annualRate), tenureMonths)[1]
       > emi[1] + EmiTolerance

\* C7 as stated: for every principal > 0, tenure > 0 and rate r in [1, 20],
\* reverseEMIRate(P, calculateEMI(P, r, n), n) is within 0.1 of r.
C7_RoundTrip == IsRoundTrip => WithinTenth(recoveredRate, annualRate)

\* C7 amended: for principal > 0, tenure > 0 and a rate r in [1, 20] given to two
\* decimals, reverseEMIRate(P, calculateEMI(P, r, n), n) is within 0.1 of r
\* whenever calculateEMI(P, r - 0.1, n) and calculateEMI(P, r + 0.1, n) lie more
\* than one unit below and above calculateEMI(P, r, n).
C7_RoundTripWhenEmiTellsApart ==
  (IsRoundTrip /\ (100 * annualRate[1]) % annualRate[2] = 0 /\ EmiTellsTenthApart)
  => WithinTenth(recoveredRate, annualRate)

C7_Witness ==
  /\ IsRoundTrip /\ EmiTellsTenthApart
  /\ IsSbiBenchmark /\ emi = <<43391, 1>> /\ i = 14 /\ recoveredRate = <<850, 100>>

\* the last midpoint tried did not converge, so the loop went on
SolverLooping == pc = "loop" /\ i > 0 => ~Converged(calcEmi, emi)

\* what a finished run returns
SolverReturned ==
  pc = "done" =>
    /\ recoveredRate[2] = 100
    /\ recoveredRate[1] >= 1 /\ recoveredRate[1] <= 50 * 100
    /\ \/ /\ i < MaxIterations
          /\ Converged(calcEmi, emi)
          /\ recoveredRate = RoundToHundredths(mid)
       \/ /\ i = MaxIterations
          /\ ~Converged(calcEmi, emi)
          /\ recoveredRate = RoundToHundredths(Midpoint(low, high))

\* C8: reverseEMIRate terminates after at most 100 bisection steps on any input
\* and returns the first midpoint whose EMI is within one unit of the target or,
\* when there is none, the final midpoint; either way a value of [0.01, 50]
\* rounded to two decimals.
C8_SolverTerminates ==
  /\ [](i <= MaxIterations /\ SolverLooping /\ SolverReturned)
  /\ <>(pc = "done")

C8_Witness ==
  /\ pc = "done" /\ principal = 100 /\ tenureMonths = 1 /\ emi = <<5, 1>>
  /\ i = MaxIterations /\ ~Converged(calcEmi, emi)
  /\ recoveredRate = <<1, 100>>

(***************************************************************************)
(* The optimizer: the baseline run, then one run per strategy, one         *)
(* simulated month per step                                                *)
(***************************************************************************)
MaxLoans == 2

Loan(outstanding, rate, emiAmount, penaltyPct, foreclosurePct, has24b, has80c) ==
  [outstanding_principal |-> outstanding, interest_rate |-> rate, emi_amount |-> emiAmount,
   prepayment_penalty_pct |-> penaltyPct, foreclosure_charges_pct |-> foreclosurePct,
   eligible_24b |-> has24b, eligible_80c |-> has80c, eligible_80e |-> FALSE]

CardLoan == Loan(5000, <<24, 1>>, 1000, 0, 0, FALSE, FALSE)      \* high rate, low balance
HomeLoan == Loan(20000, <<8, 1>>, 2000, 0, 0, TRUE, FALSE)       \* low rate, high balance
CarLoan == Loan(8000, <<12, 1>>, 1500, 2, 3, FALSE, TRUE)
PersonalLoan == Loan(12000, <<18, 1>>, 1200, 50, 0, FALSE, FALSE)
GoldLoan == Loan(3000, <<0, 1>>, 1000, 100, 0, FALSE, FALSE)      \* zero rate, 3 EMIs left
ClosedLoan == Loan(0, <<10, 1>>, 500, 0, 0, FALSE, FALSE)
\* the EMI only covers the interest: never paid off at minimum payments
StuckLoan == Loan(10000, <<12, 1>>, 100, 0, 0, FALSE, FALSE)

TopUpLoan == Loan(6000, <<7, 1>>, 1000, 0, 0, FALSE, FALSE)
ScooterLoan == Loan(7000, <<13, 1>>, 1000, 0, 0, FALSE, FALSE)
Catalogue == {CardLoan, HomeLoan, CarLoan, PersonalLoan, GoldLoan}

Portfolios == UNION {[1..n -> Catalogue] : n \in 0..MaxLoans}

\* portfolios with a loan that is closed from the start, or never closes
EdgePortfolios ==
  {<<ClosedLoan>>, <<ClosedLoan, CardLoan>>, <<StuckLoan>>, <<StuckLoan, CardLoan>>}

LumpSum == <<[month |-> 2, amount |-> 5000]>>

\* <<monthly extra, lump sums, tax bracket>>
BudgetConfigs ==
  { <<0, << >>, 0>>, <<700, << >>, 30>>, <<3000, << >>, 0>>,
    <<0, LumpSum, 30>>, <<700, LumpSum, 0>> }

\* loans whose effective rates rank against their nominal rates: by the tax
\* benefit of the first, by the foreclosure charge of the second
RatePortfolios == {<<HomeLoan, TopUpLoan>>, <<ScooterLoan, CarLoan>>}

SimInputs ==
  (Portfolios \X BudgetConfigs)
    \cup (RatePortfolios \X BudgetConfigs)
    \cup (EdgePortfolios \X {<<0, << >>, 0>>, <<700, << >>, 0>>})

InitSim ==
  /\ \E in \in SimInputs :
        /\ loans = in[1]
        /\ monthlyExtra = in[2][1] /\ lumpSums = in[2][2] /\ taxBracket = in[2][3]
  /\ RunIdle /\ results = << >> /\ recommended = "none"
  /\ pc = "idle"
  /\ principal = 0 /\ annualRate = <<0, 1>> /\ tenureMonths = 0 /\ monthlyPrepayment = 0
  /\ CalcIdle /\ AmortIdle /\ SolveIdle /\ FormIdle /\ PageIdle

\* one snapshot array handed from run to run
RunSnapshots_Shared(source) ==
  IF snapshots = << >> THEN [k \in DOMAIN source |-> NewSnapshot(source[k])] ELSE snapshots

\* the deep copy a run works on
RunSnapshots(source) == [k \in DOMAIN source |-> NewSnapshot(source[k])]

\* a run starts on its own copy of the loan snapshots
StartRun ==
  /\ pc = "idle"
  /\ Len(results) < Len(RunOrder)
  /\ strategy' = RunOrder[Len(results) + 1]
  /\ snapshots' = RunSnapshots(loans)
  /\ simMonth' = 0 /\ freedEmiPool' = 0 /\ totalInterestPaid' = 0
  /\ payoffOrder' = << >> /\ ledger' = NoLedger
  /\ pc' = "month"
  /\ UNCHANGED <<argVars, formVars, pageVars, calcVars, amortVars, solveVars, simArgs, results, recommended,
                 parked>>

\* steps 1-5 for one month; the values of each step are computed once and
\* handed to the next step
SimulateMonth ==
  /\ pc = "month"
  /\ Active(snapshots) # {} /\ ~CapReached(simMonth)
  /\ \E paying \in {Active(snapshots)},
        budget \in {AvailableBudget(strategy, monthlyExtra, lumpSums, simMonth + 1,
                                    freedEmiPool)},
        scheduled \in {Mat([k \in DOMAIN loans |-> ScheduledEmi(loans[k], snapshots[k])],
                           Len(loans))} :
       \E owed \in {Mat([k \in DOMAIN loans |-> scheduled[k].balance], Len(loans))} :
         \E allocation \in
               {Mat(ExtraAllocation(strategy, loans, owed, taxBracket,
                                    {k \in paying : owed[k] > 0}, budget), Len(loans))} :
           \E after \in
                 {Mat([k \in DOMAIN loans |->
                         AfterExtra(owed[k], allocation[k],
                                    loans[k].prepayment_penalty_pct)], Len(loans))} :
             \E closing \in {{k \in paying : after[k] = 0}} :
               /\ simMonth' = simMonth + 1
               /\ snapshots' =
                    [k \in DOMAIN loans |->
                       IF k \in closing
                         THEN [balance |-> 0, status |-> "closed",
                               payoff_month |-> simMonth + 1]
                       ELSE IF k \in paying THEN [snapshots[k] EXCEPT !.balance = after[k]]
                       ELSE snapshots[k]]
               /\ freedEmiPool' = FreedEmiPoolAfter(freedEmiPool, loans, closing)
               /\ totalInterestPaid' =
                    totalInterestPaid
                      + SumOver([k \in DOMAIN loans |-> scheduled[k].interest], paying)
               /\ payoffOrder' = payoffOrder \o Ascending(closing)
               /\ ledger' =
                    [month |-> simMonth + 1, budget |-> budget, pool |-> freedEmiPool,
                     due |-> SumOver([k \in DOMAIN loans |-> loans[k].emi_amount], paying),
                     scheduled |-> SumOver([k \in DOMAIN loans |->
                                     scheduled[k].interest + scheduled[k].principal], paying),
                     extra |-> SumOver(allocation, DOMAIN loans),
                     owed |-> owed, allocation |-> allocation]
  /\ pc' = "month"
  /\ UNCHANGED <<argVars, formVars, pageVars, calcVars, amortVars, solveVars, simArgs, strategy, results,
                 recommended, parked>>

\* step 6: all loans closed, or the cap reached (an incomplete result)
FinishRun ==
  /\ pc = "month"
  /\ Active(snapshots) = {} \/ CapReached(simMonth)
  /\ results' = Append(results,
       [strategy_name |-> strategy, total_interest_paid |-> totalInterestPaid,
        total_months |-> simMonth, incomplete |-> Active(snapshots) # {},
        payoff_order |-> payoffOrder,
        payoff_months |-> [k \in DOMAIN loans |-> snapshots[k].payoff_month]])
  /\ pc' = "idle"
  /\ UNCHANGED <<argVars, formVars, pageVars, calcVars, amortVars, solveVars, simArgs, simRun, recommended,
                 parked>>

Recommend ==
  /\ pc = "idle"
  /\ Len(results) = Len(RunOrder)
  /\ recommended' = Recommended(results)
  /\ pc' = "done"
  /\ UNCHANGED <<argVars, formVars, pageVars, calcVars, amortVars, solveVars, simArgs, simRun, results,
                 parked>>

NextSim == StartRun \/ SimulateMonth \/ FinishRun \/ Recommend

SpecSim == InitSim /\ [][NextSim]_vars

\* the engine is single-threaded and runs to completion once called
FairSim == SpecSim /\ WF_vars(NextSim)

(***************************************************************************)
(* The five runs evaluated a second time, in any order and interleaved: a  *)
(* run under way can be set aside while another one proceeds.  The results *)
(* of the second evaluation follow those of the first in results.          *)
(***************************************************************************)
RerunInputs ==
  {<<CarLoan, GoldLoan>>} \X {<<3000, << >>, 0>>, <<700, LumpSum, 30>>}

InitRerun ==
  /\ \E in \in RerunInputs :
        /\ loans = in[1]
        /\ monthlyExtra = in[2][1] /\ lumpSums = in[2][2] /\ taxBracket = in[2][3]
  /\ RunIdle /\ results = << >> /\ recommended = "none"
  /\ pc = "idle"
  /\ principal = 0 /\ annualRate = <<0, 1>> /\ tenureMonths = 0 /\ monthlyPrepayment = 0
  /\ CalcIdle /\ AmortIdle /\ SolveIdle /\ FormIdle /\ PageIdle

CurrentRun ==
  [strategy |-> strategy, snapshots |-> snapshots, simMonth |-> simMonth,
   freedEmiPool |-> freedEmiPool, totalInterestPaid |-> totalInterestPaid,
   payoffOrder |-> payoffOrder, ledger |-> ledger]

LoadRun(run) ==
  /\ strategy' = run.strategy /\ snapshots' = run.snapshots /\ simMonth' = run.simMonth
  /\ freedEmiPool' = run.freedEmiPool /\ totalInterestPaid' = run.totalInterestPaid
  /\ payoffOrder' = run.payoffOrder /\ ledger' = run.ledger

\* the first evaluation is over
Evaluated == recommended # "none"

\* the run of the strategy is finished or under way in the second evaluation
Taken(name) ==
  \/ \E p \in DOMAIN results : p > Len(RunOrder) /\ results[p].strategy_name = name
  \/ pc = "month" /\ strategy = name
  \/ \E p \in DOMAIN parked : parked[p].strategy = name

StartAnyRun ==
  /\ Evaluated /\ pc \in {"done", "idle"}
  /\ \E p \in DOMAIN RunOrder : ~Taken(RunOrder[p]) /\ strategy' = RunOrder[p]
  /\ snapshots' = RunSnapshots(loans)
  /\ simMonth' = 0 /\ freedEmiPool' = 0 /\ totalInterestPaid' = 0
  /\ payoffOrder' = << >> /\ ledger' = NoLedger
  /\ pc' = "month"
  /\ UNCHANGED <<argVars, formVars, pageVars, calcVars, amortVars, solveVars, simArgs, results, recommended,
                 parked>>

ParkRun ==
  /\ Evaluated /\ pc = "month" /\ parked = << >>
  /\ parked' = <<CurrentRun>>
  /\ pc' = "done"
  /\ UNCHANGED <<argVars, formVars, pageVars, calcVars, amortVars, solveVars, simArgs, simRun, results,
                 recommended>>

ResumeRun ==
  /\ Evaluated /\ pc \in {"done", "idle"} /\ parked # << >>
  /\ LoadRun(parked[1])
  /\ parked' = << >>
  /\ pc' = "month"
  /\ UNCHANGED <<argVars, formVars, pageVars, calcVars, amortVars, solveVars, simArgs, results, recommended>>

SwitchRun ==
  /\ Evaluated /\ pc = "month" /\ parked # << >>
  /\ LoadRun(parked[1])
  /\ parked' = <<CurrentRun>>
  /\ pc' = "month"
  /\ UNCHANGED <<argVars, formVars, pageVars, calcVars, amortVars, solveVars, simArgs, results, recommended>>

NextRerun == NextSim \/ StartAnyRun \/ ParkRun \/ ResumeRun \/ SwitchRun

SpecRerun == InitRerun /\ [][NextRerun]_vars

(***************************************************************************)
(* loanSchema.parse on loan records: the valid loan of emi-math.test.ts     *)
(* with one or two of its fields replaced                                  *)
(***************************************************************************)
validLoan ==
  [f \in LoanFields |->
     CASE f = "bank_name" -> Str("SBI", 3)
       [] f = "loan_type" -> Str("home", 4)
       [] f = "principal_amount" -> Num(5000000, 1)
       [] f = "outstanding_principal" -> Num(4500000, 1)
       [] f = "interest_rate" -> Num(17, 2)
       [] f = "tenure_months" -> Num(240, 1)
       [] f = "remaining_tenure_months" -> Num(220, 1)
       [] f = "emi_amount" -> Num(43391, 1)
       [] OTHER -> Undefined]

\* other values of a field, well-formed and malformed
FieldValues(field) ==
  CASE field = "bank_name" -> {Str("", 0), Str("State Bank of India, Commercial Branch, Mumbai Fort", 51), Undefined}
    [] field = "loan_type" -> {Str("car", 3), Str("boat", 4)}
    [] field = "principal_amount" ->
         {Num(0 - 1000, 1), Num(0, 1), Num(1, 2), Str("5000000", 7)}
    [] field = "outstanding_principal" -> {Num(0 - 1, 1), Num(0, 1), Num(6000000, 1)}
    [] field = "interest_rate" ->
         {Num(0 - 1, 1), Num(0, 1), Num(50, 1), Num(5001, 100), Num(55, 1)}
    [] field = "interest_rate_type" -> {Str("fixed", 5), Str("capped", 6)}
    [] field = "tenure_months" ->
         {Num(0 - 12, 1), Num(0, 1), Num(1, 1), Num(25, 2), Num(600, 1), Num(601, 1),
          Num(700, 1)}
    [] field = "remaining_tenure_months" -> {Num(0, 1), Num(300, 1), Num(601, 1)}
    [] field = "emi_amount" -> {Num(0, 1), Num(1, 100)}
    [] field = "emi_due_date" ->
         {Num(0, 1), Num(1, 1), Num(3, 2), Num(28, 1), Num(29, 1), Num(35, 1)}
    [] field \in ChargeFields -> {Num(0 - 1, 1), Num(2, 1)}
    [] OTHER -> {Bool(TRUE), Str("yes", 3)}

Replaced(input, field, v) == [input EXCEPT ![field] = v]

\* a field with another value for it
Replacements == UNION {{<<f, v>> : v \in FieldValues(f)} : f \in LoanFields}

LoanRecords ==
  {validLoan}
    \cup {Replaced(Replaced(validLoan, a[1], a[2]), b[1], b[2]) : a, b \in Replacements}

InitParse ==
  /\ record \in LoanRecords
  /\ parsed = NotParsed
  /\ pc = "call"
  /\ principal = 0 /\ annualRate = <<0, 1>> /\ tenureMonths = 0 /\ monthlyPrepayment = 0
  /\ CalcIdle /\ AmortIdle /\ SolveIdle /\ SimIdle /\ PageIdle

ParseLoan ==
  /\ pc = "call"
  /\ parsed' = loanSchemaParse(record)
  /\ pc' = "done"
  /\ UNCHANGED <<argVars, record, pageVars, calcVars, amortVars, solveVars, simVars>>

NextParse == ParseLoan

SpecParse == InitParse /\ [][NextParse]_vars

(***************************************************************************)
(* api.ts: requests through the response interceptor, one after another    *)
(***************************************************************************)
MaxRequests == 3

\* statuses the transport resolves with, and statuses it rejects with
OkStatuses == {200, 201, 204}
ErrorStatuses == {400, 401, 403, 404, 422, 428, 429, 430, 499, 500, 502, 503}

InitApi ==
  /\ authEnabled \in BOOLEAN
  /\ requests = 0 /\ reply = NoReply /\ outcome = Pending
  /\ toasts = << >> /\ href = "/"
  /\ pc = "idle"
  /\ principal = 0 /\ annualRate = <<0, 1>> /\ tenureMonths = 0 /\ monthlyPrepayment = 0
  /\ CalcIdle /\ AmortIdle /\ SolveIdle /\ SimIdle /\ FormIdle /\ WizardIdle /\ ScanIdle

\* a caller awaits api.get / api.post
SendRequest ==
  /\ pc \in {"idle", "settled"}
  /\ requests < MaxRequests
  /\ requests' = requests + 1
  /\ reply' = NoReply /\ outcome' = Pending
  /\ pc' = "sent"
  /\ UNCHANGED <<argVars, formVars, calcVars, amortVars, solveVars, simVars, wizardVars, scanVars,
               authEnabled, toasts, href>>

\* the transport settles the request: a response, an error that carries the
\* server's response, or an error without one
Settle ==
  /\ pc = "sent"
  /\ reply' \in {Response(st) : st \in OkStatuses}
                \cup {ErrorWith(st) : st \in ErrorStatuses} \cup {NetworkError}
  /\ pc' = "intercept"
  /\ UNCHANGED <<argVars, formVars, calcVars, amortVars, solveVars, simVars, wizardVars, scanVars,
               authEnabled, requests, outcome, toasts, href>>

\* part_004 line 13, part_003 line 22: (response) => response
OnFulfilled ==
  /\ pc = "intercept" /\ reply.kind = "response"
  /\ outcome' = [state |-> "fulfilled", value |-> reply]
  /\ pc' = "settled"
  /\ UNCHANGED <<argVars, formVars, calcVars, amortVars, solveVars, simVars, wizardVars, scanVars,
               authEnabled, requests, reply, toasts, href>>

\* part_004 lines 14-29
OnRejected ==
  /\ pc = "intercept" /\ reply.kind = "error" /\ ~authEnabled
  /\ toasts' = ToastsAfter(toasts, reply)
  /\ outcome' = [state |-> "rejected", value |-> reply]
  /\ pc' = "settled"
  /\ UNCHANGED <<argVars, formVars, calcVars, amortVars, solveVars, simVars, wizardVars, scanVars,
               authEnabled, requests, reply, href>>

\* part_003 lines 23-28
OnRejectedAuth ==
  /\ pc = "intercept" /\ reply.kind = "error" /\ authEnabled
  /\ href' = HrefAfter(href, reply)
  /\ outcome' = [state |-> "rejected", value |-> reply]
  /\ pc' = "settled"
  /\ UNCHANGED <<argVars, formVars, calcVars, amortVars, solveVars, simVars, wizardVars, scanVars,
               authEnabled, requests, reply, toasts>>

NextApi == SendRequest \/ Settle \/ OnFulfilled \/ OnRejected \/ OnRejectedAuth

SpecApi == InitApi /\ [][NextApi]_vars

(***************************************************************************)
(* The optimizer wizard: StepSelectLoans and StepSetBudget under a parent  *)
(* that keeps what onChange and onMonthlyExtraChange report                *)
(***************************************************************************)
ListedLoan(id) == [id |-> id]

\* the loans prop
ListedLoans ==
  { << >>, <<ListedLoan("a")>>, <<ListedLoan("a"), ListedLoan("b")>>,
    <<ListedLoan("b"), ListedLoan("c"), ListedLoan("a")>> }

\* range input of lines 91-96: min 10, max 1000, step 10
DailySavings == {10, 100, 500, 1000}
\* range input of lines 107-112: min 0, max 50000, step 500
MonthlyExtras == {0, 500, 3000, 50000}

InitWizard ==
  /\ loans \in ListedLoans
  /\ selected \in {<< >>, LoanIds(loans)}
  /\ monthlyExtra \in {0, 5000}
  /\ gullakMode = FALSE /\ dailySaving = InitialDailySaving
  /\ lumpSums = << >> /\ taxBracket = 0
  /\ RunIdle /\ results = << >> /\ recommended = "none"
  /\ pc = "wizard"
  /\ principal = 0 /\ annualRate = <<0, 1>> /\ tenureMonths = 0 /\ monthlyPrepayment = 0
  /\ CalcIdle /\ AmortIdle /\ SolveIdle /\ FormIdle /\ ApiIdle /\ ScanIdle

\* StepSelectLoans.tsx line 43: a checkbox of the list
ToggleLoan ==
  /\ pc = "wizard"
  /\ \E k \in 1..Len(loans) : selected' = toggleLoan(selected, loans[k].id)
  /\ UNCHANGED <<pc, argVars, formVars, calcVars, amortVars, solveVars, simVars, apiVars, scanVars,
               gullakMode, dailySaving>>

\* line 27: the Select All / Deselect All button
ToggleAll ==
  /\ pc = "wizard"
  /\ selected' = toggleAll(selected, loans)
  /\ UNCHANGED <<pc, argVars, formVars, calcVars, amortVars, solveVars, simVars, apiVars, scanVars,
               gullakMode, dailySaving>>

\* part_012 lines 51-56, 78
HandleGullakToggle ==
  /\ pc = "wizard"
  /\ monthlyExtra' = handleGullakToggle(gullakMode, monthlyExtra, dailySaving)
  /\ gullakMode' = ~gullakMode
  /\ UNCHANGED <<pc, argVars, formVars, calcVars, amortVars, solveVars, apiVars, scanVars,
               loans, lumpSums, taxBracket, simRun, results, recommended, parked,
               selected, dailySaving>>

\* lines 58-61.  The slider that calls it (line 94) is rendered in Gullak mode;
\* the handler itself takes either mode.
HandleDailyChange ==
  /\ pc = "wizard"
  /\ \E value \in DailySavings :
        /\ dailySaving' = value
        /\ monthlyExtra' = handleDailyChange(gullakMode, monthlyExtra, value)
  /\ UNCHANGED <<pc, argVars, formVars, calcVars, amortVars, solveVars, apiVars, scanVars,
               loans, lumpSums, taxBracket, simRun, results, recommended, parked,
               selected, gullakMode>>

\* line 110: the monthly slider, rendered outside Gullak mode only
MonthlySliderChange ==
  /\ pc = "wizard"
  /\ MonthlySliderShown(gullakMode)
  /\ \E value \in MonthlyExtras : monthlyExtra' = value
  /\ UNCHANGED <<pc, argVars, formVars, calcVars, amortVars, solveVars, apiVars, scanVars,
               loans, lumpSums, taxBracket, simRun, results, recommended, parked,
               wizardVars>>

NextWizard ==
  ToggleLoan \/ ToggleAll \/ HandleGullakToggle \/ HandleDailyChange \/ MonthlySliderChange

SpecWizard == InitWizard /\ [][NextWizard]_vars

(***************************************************************************)
(* ScanDocumentPage: uploads, the status query and the editable fields      *)
(***************************************************************************)
MaxUploads == 2
JobName == <<"job1", "job2", "job3">>
JobIds == {JobName[k] : k \in 1..MaxUploads}

\* types/index.ts lines 75-79, without the confidence
BankField == [field_name |-> "bank_name", value |-> "SBI"]
EmiField == [field_name |-> "emi_amount", value |-> "25000"]
\* what the user types into an input of line 139
EditValues == {"", "HDFC"}

\* types/index.ts line 68
PendingStatuses == {"uploaded", "processing"}
\* lines 13-15: the statuses rendered as an outcome
IsFinal(data) == data.status \in {"completed", "review_needed", "failed"}

\* line 38: data of the query the page observes; disabled while jobId is null
scanStatus == IF jobId = NoJob THEN NoData ELSE queryData[jobId]

InitScan ==
  /\ pc = "scan"
  /\ jobId = NoJob /\ editFields = NoFields /\ uploading = {} /\ drops = 0
  /\ serverJobs = [j \in JobIds |-> NotUploaded]
  /\ queryData = [j \in JobIds |-> NoData]
  /\ fetching = {} /\ pollInterval = Off /\ finalShown = FALSE
  /\ principal = 0 /\ annualRate = <<0, 1>> /\ tenureMonths = 0 /\ monthlyPrepayment = 0
  /\ CalcIdle /\ AmortIdle /\ SolveIdle /\ SimIdle /\ FormIdle /\ ApiIdle /\ WizardIdle

\* lines 65-67, 96: a file dropped on the zone, which is rendered while jobId
\* is null; nothing holds a second file back while an upload is pending
Drop ==
  /\ pc = "scan" /\ jobId = NoJob
  /\ drops < MaxUploads
  /\ drops' = drops + 1
  /\ uploading' = uploading \cup {JobName[drops + 1]}
  /\ UNCHANGED <<pc, argVars, formVars, calcVars, amortVars, solveVars, simVars, apiVars, wizardVars,
               jobId, editFields, serverJobs, queryData, fetching, pollInterval, finalShown>>

\* lines 28-35: the upload is answered with a job id; onSuccess sets jobId, the
\* query key changes and the query of the new key, now enabled, fetches
UploadSucceeds ==
  /\ pc = "scan"
  /\ \E j \in uploading :
        /\ uploading' = uploading \ {j}
        /\ serverJobs' = [serverJobs EXCEPT ![j] = [status |-> "uploaded", extracted_fields |-> Null]]
        /\ jobId' = j
        /\ fetching' = fetching \cup {j}
        /\ pollInterval' = refetchInterval(queryData[j])
        /\ editFields' = InitializeEditFields(queryData[j], editFields)
        /\ finalShown' = (finalShown \/ IsFinal(queryData[j]))
  /\ UNCHANGED <<pc, argVars, formVars, calcVars, amortVars, solveVars, simVars, apiVars, wizardVars,
               drops, queryData>>

\* line 110: the upload is rejected
UploadFails ==
  /\ pc = "scan"
  /\ \E j \in uploading : uploading' = uploading \ {j}
  /\ UNCHANGED <<pc, argVars, formVars, calcVars, amortVars, solveVars, simVars, apiVars, wizardVars,
               jobId, editFields, drops, serverJobs, queryData, fetching, pollInterval, finalShown>>

\* types/index.ts lines 66-73: the scanner works on a job; fields may be shown
\* while it is processing, a finished job stays as it is
ServerAdvance ==
  /\ pc = "scan"
  /\ \E j \in JobIds :
        /\ serverJobs[j].status \in PendingStatuses
        /\ \E next \in { [status |-> "processing", extracted_fields |-> Null],
                        [status |-> "processing", extracted_fields |-> Array(<<BankField>>)],
                        [status |-> "completed", extracted_fields |-> Array(<<BankField, EmiField>>)],
                        [status |-> "review_needed", extracted_fields |-> Array(<<BankField, EmiField>>)],
                        [status |-> "failed", extracted_fields |-> Null] } :
              /\ next # serverJobs[j]
              /\ serverJobs[j].extracted_fields # Null => next.extracted_fields # Null
              /\ serverJobs' = [serverJobs EXCEPT ![j] = next]
  /\ UNCHANGED <<pc, argVars, formVars, calcVars, amortVars, solveVars, simVars, apiVars, wizardVars,
               jobId, editFields, uploading, drops, queryData, fetching, pollInterval, finalShown>>

\* lines 40-45, 81-87: a status request is answered; for the observed query the
\* interval is taken from the new data and the effect runs
FetchResolves ==
  /\ pc = "scan"
  /\ \E j \in fetching :
        /\ fetching' = fetching \ {j}
        /\ queryData' = [queryData EXCEPT ![j] = serverJobs[j]]
        /\ IF j = jobId
             THEN /\ pollInterval' = refetchInterval(serverJobs[j])
                  /\ editFields' = InitializeEditFields(serverJobs[j], editFields)
                  /\ finalShown' = (finalShown \/ IsFinal(serverJobs[j]))
             ELSE UNCHANGED <<pollInterval, editFields, finalShown>>
  /\ UNCHANGED <<pc, argVars, formVars, calcVars, amortVars, solveVars, simVars, apiVars, wizardVars,
               jobId, uploading, drops, serverJobs>>

\* line 40: a status request fails; the data stay as they were
FetchFails ==
  /\ pc = "scan"
  /\ \E j \in fetching : fetching' = fetching \ {j}
  /\ UNCHANGED <<pc, argVars, formVars, calcVars, amortVars, solveVars, simVars, apiVars, wizardVars,
               jobId, editFields, uploading, drops, serverJobs, queryData, pollInterval, finalShown>>

\* lines 41-45: the interval has elapsed and the observed query fetches again
Refetch ==
  /\ pc = "scan"
  /\ jobId # NoJob /\ pollInterval = PollMs
  /\ jobId \notin fetching
  /\ fetching' = fetching \cup {jobId}
  /\ UNCHANGED <<pc, argVars, formVars, calcVars, amortVars, solveVars, simVars, apiVars, wizardVars,
               jobId, editFields, uploading, drops, serverJobs, queryData, pollInterval, finalShown>>

\* lines 115, 131-143: the user types into the input of an extracted field
EditField ==
  /\ pc = "scan"
  /\ jobId # NoJob /\ scanStatus # NoData
  /\ scanStatus.extracted_fields # Null
  /\ \E k \in 1..Len(scanStatus.extracted_fields[1]), value \in EditValues :
        editFields' = SetField(editFields, scanStatus.extracted_fields[1][k].field_name, value)
  /\ UNCHANGED <<pc, argVars, formVars, calcVars, amortVars, solveVars, simVars, apiVars, wizardVars,
               jobId, uploading, drops, serverJobs, queryData, fetching, pollInterval, finalShown>>

NextScan ==
  \/ Drop \/ UploadSucceeds \/ UploadFails \/ ServerAdvance
  \/ FetchResolves \/ FetchFails \/ Refetch \/ EditField

SpecScan == InitScan /\ [][NextScan]_vars

(***************************************************************************)
(* Claims about the simulation                                             *)
(***************************************************************************)
\* the configured extra budget: the monthly extra and the lump sums
ConfiguredExtra ==
  monthlyExtra + SumOver([k \in DOMAIN lumpSums |-> lumpSums[k].amount], DOMAIN lumpSums)

\* C9: in every simulated month of every run, the scheduled EMIs paid plus the
\* extra payments applied do not exceed the monthly extra + the lump sum of the
\* month + the freed-EMI pool + the scheduled EMIs due that month.
C9_BudgetConservation ==
  ledger.month > 0 =>
    /\ ledger.scheduled + ledger.extra
         <= monthlyExtra + LumpSumAt(lumpSums, ledger.month) + ledger.pool + ledger.due
    /\ ledger.extra = SumOver(ledger.allocation, DOMAIN loans)
    /\ \A k \in DOMAIN loans : ledger.allocation[k] >= 0

\* a month in which the relay is at work and the whole budget is spent
C9_Witness ==
  /\ pc = "month" /\ strategy = "avalanche" /\ Len(loans) = 2
  /\ ledger.pool > 0 /\ ledger.scheduled = ledger.due
  /\ ledger.extra = monthlyExtra + LumpSumAt(lumpSums, ledger.month) + ledger.pool
  /\ ledger.allocation[1] > 0 /\ ledger.allocation[2] = 0

Unpaid(result) ==
  {k \in DOMAIN loans : loans[k].outstanding_principal > 0 /\ result.payoff_months[k] = 0}

\* a finished run stopped because all loans were closed or because the month
\* counter reached the cap, and it is marked incomplete in the second case only
StoppedProperly(result) ==
  /\ result.total_months <= MaxSimMonths
  /\ Unpaid(result) = {} \/ result.total_months = MaxSimMonths
  /\ result.incomplete <=> Unpaid(result) # {}
  /\ \A k \in DOMAIN loans : result.payoff_months[k] <= result.total_months

\* C11: every simulation run terminates: the month counter never passes 600,
\* every run ends with all loans closed or at month 600, a run stopped by the
\* cap with loans still open is an incomplete result (a result all the same),
\* and the optimizer eventually returns the results of all five runs.
C11_RunTerminates ==
  /\ [](simMonth <= MaxSimMonths /\ \A p \in DOMAIN results : StoppedProperly(results[p]))
  /\ <>(pc = "done" /\ Len(results) = Len(RunOrder))

\* one portfolio whose baseline stops at the cap while a strategy pays it off
C11_Witness ==
  /\ pc = "done"
  /\ results[1].incomplete /\ results[1].total_months = MaxSimMonths
  /\ \E p \in 2..Len(results) :
        ~results[p].incomplete /\ results[p].total_months < MaxSimMonths

\* the EMIs of the loans that closed in months first..last of the current run
EmisFreed(first, last) ==
  SumOver([k \in DOMAIN loans |-> loans[k].emi_amount],
          {k \in DOMAIN snapshots : snapshots[k].payoff_month \in first..last})

\* in every state of a run: closed means balance zero, the pool a month draws
\* on holds the EMIs of the loans closed in earlier months, and the running
\* pool those of the loans closed so far
RelayState ==
  /\ \A k \in DOMAIN snapshots :
        /\ snapshots[k].status = "closed" <=> snapshots[k].balance = 0
        /\ snapshots[k].payoff_month > 0 =>
              snapshots[k].status = "closed" /\ snapshots[k].payoff_month <= simMonth
  /\ freedEmiPool = EmisFreed(1, simMonth)
  /\ ledger.month > 0 =>
        /\ ledger.month = simMonth
        /\ ledger.pool = EmisFreed(1, ledger.month - 1)
        /\ strategy # "baseline" =>
              ledger.budget = monthlyExtra + LumpSumAt(lumpSums, ledger.month) + ledger.pool

\* in every month of a run: a closed loan stays closed, and a loan closes in
\* the month its balance reaches zero
RelayStep ==
  (pc = "month" /\ pc' = "month") =>
    \A k \in DOMAIN snapshots :
      /\ snapshots[k].status = "closed" => snapshots'[k] = snapshots[k]
      /\ (snapshots[k].status = "active" /\ snapshots'[k].balance = 0) =>
            snapshots'[k].status = "closed" /\ snapshots'[k].payoff_month = simMonth'

\* C12: a loan is closed exactly when its balance is zero and never returns to
\* active; its EMI joins the freed-EMI pool from the month after it closes, so
\* the pool of every month is the sum of the EMIs of the loans closed in
\* earlier months.
C12_FreedEmiRelay == []RelayState /\ [][RelayStep]_vars

\* a month that draws on the EMI of a loan closed earlier while the other loan
\* closes: its EMI is in the running pool but not in the pool of this month
C12_Witness ==
  /\ pc = "month" /\ strategy = "snowball" /\ Len(loans) = 2
  /\ \E j, k \in DOMAIN loans :
        /\ snapshots[j].payoff_month \in 1..(simMonth - 1)
        /\ snapshots[k].payoff_month = simMonth
        /\ ledger.pool = loans[j].emi_amount
        /\ freedEmiPool = loans[j].emi_amount + loans[k].emi_amount

\* C13: under the Proportional strategy, in every month the extra payment
\* allocated to a loan (its share plus the rounding remainder given to the
\* largest-balance loan) is at most the balance the loan still has outstanding.
C13_ProportionalNeverOverpays ==
  (strategy = "proportional" /\ ledger.month > 0) =>
    \A k \in DOMAIN loans : ledger.allocation[k] <= ledger.owed[k]

\* the result of the run of a strategy
ResultOf(name) == results[CHOOSE p \in DOMAIN results : results[p].strategy_name = name]

\* the loans that could take an extra payment in the month of the ledger
Payable == {k \in DOMAIN loans : ledger.owed[k] > 0}

\* loan k took an extra payment in the month only if loan j was paid off
ServedFirst(j, k) == ledger.allocation[k] > 0 => ledger.allocation[j] = ledger.owed[j]

AvalancheBefore(j, k) ==
  \/ RateAbove(loans[j].interest_rate, loans[k].interest_rate)
  \/ loans[j].interest_rate = loans[k].interest_rate /\ j < k

SnowballBefore(j, k) ==
  \/ ledger.owed[j] < ledger.owed[k]
  \/ ledger.owed[j] = ledger.owed[k] /\ j < k

\* loan j has the higher rate and the lower balance
HighRateLowBalance(rates, balances, j, k) ==
  RateAbove(rates[j], rates[k]) /\ balances[j] < balances[k]

\* C14 as stated: Avalanche and Snowball produce distinct payoff orders for a
\* two-loan portfolio of a high-rate/low-balance loan and a low-rate/
\* high-balance loan (with an extra budget to distribute).
C14_DistinctPayoffOrders ==
  ( /\ pc = "done" /\ Len(loans) = 2 /\ ConfiguredExtra > 0
    /\ \E j, k \in DOMAIN loans :
          HighRateLowBalance([n \in DOMAIN loans |-> loans[n].interest_rate],
                             [n \in DOMAIN loans |-> loans[n].outstanding_principal], j, k) )
    => ResultOf("avalanche").payoff_order # ResultOf("snowball").payoff_order

\* C14 amended: in every month Avalanche serves the loans by nominal rate
\* descending and Snowball by current balance ascending, ties by insertion
\* order; so in a month in which one loan has both the higher rate and the
\* lower balance, both strategies serve that loan first.
C14_PriorityOrders ==
  ledger.month > 0 =>
    \A j, k \in Payable :
      /\ (strategy = "avalanche" /\ AvalancheBefore(j, k)) => ServedFirst(j, k)
      /\ (strategy = "snowball" /\ SnowballBefore(j, k)) => ServedFirst(j, k)
      /\ ( /\ strategy \in {"avalanche", "snowball"}
           /\ HighRateLowBalance([n \in DOMAIN loans |-> loans[n].interest_rate],
                                 ledger.owed, j, k) )
           => ServedFirst(j, k)

\* the two strategies do give distinct payoff orders when the high-rate loan
\* has the high balance
C14_Witness ==
  /\ pc = "done" /\ Len(loans) = 2
  /\ RateAbove(loans[1].interest_rate, loans[2].interest_rate)
  /\ loans[1].outstanding_principal > loans[2].outstanding_principal
  /\ ResultOf("avalanche").payoff_order = <<1, 2>>
  /\ ResultOf("snowball").payoff_order = <<2, 1>>

\* a quick win: the balance is gone within 3 scheduled EMIs
QuickWin(k) == PayableWithin(ledger.owed[k], loans[k], QuickWinEmis)

EffectiveRateAbove(j, k) ==
  RateAbove(EffectiveRate(loans[j], taxBracket), EffectiveRate(loans[k], taxBracket))

\* C15: in every month of a SmartHybrid run, a loan payable within 3 scheduled
\* EMIs is served before every loan that is not, whatever their effective
\* rates, and among the loans that are not the higher effective rate (nominal
\* rate less the tax benefit, plus the foreclosure charge) is served first.
C15_SmartHybridOrder ==
  (strategy = "smart_hybrid" /\ ledger.month > 0) =>
    \A j, k \in Payable :
      /\ (QuickWin(j) /\ ~QuickWin(k)) => ServedFirst(j, k)
      /\ (~QuickWin(j) /\ ~QuickWin(k) /\ EffectiveRateAbove(j, k)) => ServedFirst(j, k)

\* a quick win of the lower effective rate takes the budget of the month
C15_Witness ==
  /\ pc = "month" /\ strategy = "smart_hybrid" /\ ledger.month > 0
  /\ \E j, k \in Payable :
        /\ QuickWin(j) /\ ~QuickWin(k) /\ EffectiveRateAbove(k, j)
        /\ ledger.allocation[j] > 0 /\ ledger.allocation[j] < ledger.owed[j]
        /\ ledger.allocation[k] = 0

CanonicalOrder == <<"smart_hybrid", "avalanche", "snowball", "proportional">>

CanonicalRank(name) == CHOOSE p \in DOMAIN CanonicalOrder : CanonicalOrder[p] = name

InterestSaved(result) == ResultOf("baseline").total_interest_paid - result.total_interest_paid

\* C16: the recommended strategy is one of the four evaluated strategies; none
\* saves more interest; none that saves as much takes fewer months; none that
\* ties on both comes earlier in the order SmartHybrid, Avalanche, Snowball,
\* Proportional.
C16_Recommendation ==
  pc = "done" =>
    /\ \E p \in DOMAIN CanonicalOrder : recommended = CanonicalOrder[p]
    /\ \A p \in DOMAIN CanonicalOrder :
          LET best == ResultOf(recommended)
              other == ResultOf(CanonicalOrder[p])
          IN  /\ InterestSaved(other) <= InterestSaved(best)
              /\ InterestSaved(other) = InterestSaved(best) =>
                    /\ best.total_months <= other.total_months
                    /\ best.total_months = other.total_months =>
                          CanonicalRank(recommended) <= p

\* the months decide between strategies that save the same interest: the
\* recommended one comes later in the canonical order
C16_Witness ==
  /\ pc = "done" /\ recommended # "smart_hybrid"
  /\ \E p \in DOMAIN CanonicalOrder :
        /\ p < CanonicalRank(recommended)
        /\ InterestSaved(ResultOf(CanonicalOrder[p])) = InterestSaved(ResultOf(recommended))
        /\ ResultOf(CanonicalOrder[p]).total_months > ResultOf(recommended).total_months

\* two finished runs of one strategy have the same result
RunsAgree ==
  \A p, q \in DOMAIN results :
    results[p].strategy_name = results[q].strategy_name => results[p] = results[q]

\* a run begins on snapshots taken from the input loans
OwnCopy ==
  (pc = "month" /\ simMonth = 0) =>
    /\ DOMAIN snapshots = DOMAIN loans
    /\ \A k \in DOMAIN loans :
          /\ snapshots[k].balance = loans[k].outstanding_principal
          /\ snapshots[k].payoff_month = 0
    /\ freedEmiPool = 0 /\ totalInterestPaid = 0 /\ payoffOrder = << >>

C18_DegenerateInputs ==
  /\ (principal <= 0 \/ tenureMonths <= 0) =>
        /\ pc = "emi" => emiResult = <<0, 1>>
        /\ pc # "loop" /\ schedule = << >>
  /\ (pc = "afford" /\ (emiBudget[1] <= 0 \/ tenureMonths <= 0)) => affordable = <<0, 1>>

\* calculateAffordability called with an EMI and a rate > 0 but no tenure
C18_Witness ==
  /\ pc = "afford" /\ emiBudget[1] > 0 /\ annualRate[1] > 0 /\ tenureMonths < 0
  /\ principal > 0 /\ affordable = <<0, 1>>

(***************************************************************************)
(* Claims about loanSchema                                                 *)
(***************************************************************************)
Below(v, k) == v.kind = "number" /\ v.num < k * v.den
Above(v, k) == v.kind = "number" /\ v.num > k * v.den

\* the malformations of the claim
Malformed(input) ==
  \/ ~Above(input["principal_amount"], 0)
  \/ Below(input["interest_rate"], 0) \/ Above(input["interest_rate"], 50)
  \/ ~Above(input["tenure_months"], 0) \/ Above(input["tenure_months"], 600)
  \/ input["bank_name"] = Str("", 0)
  \/ Below(input["emi_due_date"], 1) \/ Above(input["emi_due_date"], 28)

\* C19: a record with principal_amount <= 0, interest_rate outside [0, 50],
\* tenure_months <= 0 or > 600, an empty bank_name or emi_due_date outside
\* 1..28 fails validation; an accepted record comes back with every value it
\* had, and a record that passes every check of its fields is accepted.
C19_SchemaRejectsMalformed ==
  pc = "done" =>
    /\ Malformed(record) => ~parsed.success
    /\ parsed.success =>
          \A f \in LoanFields : record[f] # Undefined => parsed.data[f] = record[f]
    /\ (\A f \in LoanFields : FieldAccepts(f, WithDefault(f, record[f]))) => parsed.success

\* a record at the upper limits of rate and due date is accepted as it is, with
\* the defaults for what it leaves out
C19_Witness ==
  /\ pc = "done" /\ parsed.success
  /\ record["interest_rate"] = Num(50, 1) /\ record["emi_due_date"] = Num(28, 1)
  /\ parsed.data["interest_rate"] = Num(50, 1) /\ parsed.data["emi_due_date"] = Num(28, 1)
  /\ record["interest_rate_type"] = Undefined
  /\ parsed.data["interest_rate_type"] = Str("floating", 8)

NotAbove(v, w) == v.num * w.den <= w.num * v.den

\* C20: every loan record accepted by validation has outstanding_principal <=
\* principal_amount and remaining_tenure_months <= tenure_months.
C20_AcceptedMeetsInvariant ==
  (pc = "done" /\ parsed.success) =>
    /\ NotAbove(parsed.data["outstanding_principal"], parsed.data["principal_amount"])
    /\ NotAbove(parsed.data["remaining_tenure_months"], parsed.data["tenure_months"])

(***************************************************************************)
(* Claims about calculateAffordability as the inverse of calculateEMI      *)
(***************************************************************************)
InverseTaken ==
  pc = "inverse" /\ principal > 0 /\ tenureMonths > 0 /\ RateInRange(annualRate, 0, 50)

\* |affordable - principal| as a multiple of 1 / affordable[2]
InverseGap == Abs(affordable[1] - principal * affordable[2])

\* C21 as stated: for every principal > 0, 0 <= rate <= 50 and tenure > 0,
\* calculateAffordability(calculateEMI(P, r, n), r, n) is within 0.1% of P, and
\* for rate = 0 it returns exactly emi * tenure.
C21_InverseWithinTenthPercent ==
  InverseTaken
  => /\ 1000 * InverseGap <= principal * affordable[2]
     /\ annualRate[1] = 0
          => affordable = <<emiResult[1] * tenureMonths, emiResult[2]>>

\* C21 amended: the EMI is rounded to a whole unit before it is handed back, so
\* the round trip returns P to within (tenure + 1) / 2 units, which is within
\* 0.1% of P once P >= 500 * (tenure + 1); for rate = 0 it returns exactly
\* emi * tenure.
C21_InverseWithinRounding ==
  InverseTaken
  => /\ 2 * InverseGap <= (tenureMonths + 1) * affordable[2]
     /\ principal >= 500 * (tenureMonths + 1)
          => 1000 * InverseGap <= principal * affordable[2]
     /\ annualRate[1] = 0
          => affordable = <<emiResult[1] * tenureMonths, emiResult[2]>>

\* the round trip of the test: 5000000 at 8.5% over 240 months comes back as
\* 4999981
C21_Witness ==
  /\ InverseTaken /\ IsSbiBenchmark
  /\ emiBudget = <<43391, 1>> /\ affordable = <<4999981, 1>>

(***************************************************************************)
(* Claims about calculateEMI as the evaluation function of the bisection   *)
(***************************************************************************)
\* rates <<num, den>> with arbitrary-precision num and den
RateBelow(r1, r2) == BigCmp(BigMul(r1[1], r2[2]), BigMul(r2[1], r1[2])) < 0
RateAtMost(r1, r2) == BigCmp(BigMul(r1[1], r2[2]), BigMul(r2[1], r1[2])) <= 0

\* money amounts <<num, den>>
AmountAtMost(a, b) == a[1] * b[2] <= b[1] * a[2]

\* a round trip whose loop has tried the midpoint mid: emi is the EMI at
\* annualRate, calcEmi the EMI at mid
MidpointTried ==
  /\ principal > 0 /\ tenureMonths > 0 /\ annualRate[1] > 0
  /\ (pc = "loop" /\ i > 0) \/ pc = "done"

\* the EMIs at mid and at annualRate stand as the two rates do
MidpointMonotone ==
  MidpointTried
  => /\ RateBelow(mid, BigRate(annualRate)) => AmountAtMost(calcEmi, emi)
     /\ RateBelow(BigRate(annualRate), mid) => AmountAtMost(emi, calcEmi)

\* the rate of the round trip lies in [low, high]
TargetBracketed ==
  (principal > 0 /\ tenureMonths > 0 /\ annualRate[1] > 0 /\ pc \in {"loop", "done"})
  => RateAtMost(low, BigRate(annualRate)) /\ RateAtMost(BigRate(annualRate), high)

\* the EMIs at two successive midpoints stand as the midpoints do
SuccessiveMidpointsMonotone ==
  (pc = "loop" /\ i > 0 /\ principal > 0 /\ tenureMonths > 0 /\ mid' # mid)
  => /\ RateBelow(mid, mid') => AmountAtMost(calcEmi, calcEmi')
     /\ RateBelow(mid', mid) => AmountAtMost(calcEmi', calcEmi)

\* C22: calculateEMI is monotone in the rate: for fixed principal > 0 and
\* tenure > 0 and any rates r1 < r2 in [0.01, 50], calculateEMI(P, r1, n) <=
\* calculateEMI(P, r2, n); so the bisection of reverseEMIRate keeps the target
\* rate inside [low, high].
C22_EmiMonotoneInRate ==
  [](MidpointMonotone /\ TargetBracketed) /\ [][SuccessiveMidpointsMonotone]_vars

\* the SBI round trip has narrowed the interval from both sides of 8.5 and
\* the EMI at the midpoint is strictly below the target
C22_Witness ==
  /\ MidpointTried /\ IsSbiBenchmark /\ pc = "loop" /\ i >= 3
  /\ RateBelow(SearchLow, low) /\ RateBelow(high, SearchHigh)
  /\ RateBelow(mid, BigRate(annualRate)) /\ calcEmi[1] < emi[1]

(***************************************************************************)
(* Claims about the length of the schedule                                 *)
(***************************************************************************)
ScheduleReturned == pc \in {"done", "saved"} /\ principal > 0 /\ tenureMonths > 0

\* C23 as stated: with no monthly prepayment, for every principal > 0 and
\* tenureMonths > 0, the schedule has exactly tenureMonths entries and
\* calculateInterestSaved with prepayment 0 reports monthsSaved = 0.
C23_FullLengthWithoutPrepayment ==
  (ScheduleReturned /\ monthlyPrepayment = 0)
  => /\ Len(schedule) = tenureMonths
     /\ pc = "saved" => saved.monthsSaved = 0

\* C23 amended: with no monthly prepayment, for principal > 0 and tenureMonths > 0,
\* the schedule has at least one and at most tenureMonths entries, and has fewer
\* only when its last entry has balance 0 (the rounded EMI has paid the loan off
\* early); it has exactly tenureMonths entries when the rate is 0 and for the
\* loan of the test; calculateInterestSaved with prepayment 0 reports
\* monthsSaved = tenureMonths - length of the schedule, which is never negative.
C23_LengthWithoutPrepayment ==
  (ScheduleReturned /\ monthlyPrepayment = 0)
  => /\ Len(schedule) >= 1 /\ Len(schedule) <= tenureMonths
     /\ Len(schedule) < tenureMonths => LastEntry.balance = 0
     /\ (annualRate[1] = 0 \/ IsSbiBenchmark) => Len(schedule) = tenureMonths
     /\ pc = "saved" => /\ saved.monthsSaved = tenureMonths - Len(schedule)
                        /\ saved.monthsSaved >= 0

\* one unit at 1% over two months: the EMI of 1 pays the loan off in month 1
C23_Witness ==
  /\ pc = "saved" /\ monthlyPrepayment = 0
  /\ principal = 1 /\ annualRate = <<1, 1>> /\ tenureMonths = 2
  /\ Len(schedule) = 1 /\ saved.monthsSaved = 1

(***************************************************************************)
(* Claims about the monthly prepayment                                     *)
(***************************************************************************)
PrepaidScheduleReturned == ScheduleReturned /\ monthlyPrepayment > 0

\* C24 as stated: a monthly prepayment > 0 shortens the schedule and saves
\* interest: the schedule has fewer entries than tenureMonths, and
\* calculateInterestSaved reports interestSaved > 0 and monthsSaved > 0.
C24_PrepaymentShortens ==
  PrepaidScheduleReturned
  => /\ Len(schedule) < tenureMonths
     /\ pc = "saved" => saved.interestSaved > 0 /\ saved.monthsSaved > 0

\* length and cumulative interest of the schedule of the same loan without
\* prepayment, amounts in units of 1 / emi[2]
Unprepaid ==
  LET run[m \in Nat, b \in Nat, c \in Nat] ==
        IF ~LoopContinues(m, tenureMonths, b)
          THEN [length |-> m - 1, cumulativeInterest |-> c]
          ELSE LET s == AmortizationMonth(b, emi[1], annualRate, 0)
               IN  IF s.balance <= 0
                     THEN [length |-> m, cumulativeInterest |-> c + s.interest]
                     ELSE run[m + 1, s.balance, c + s.interest]
  IN  run[1, principal * emi[2], 0]

\* the prepayments of all months but the last cover the principal
PrepaymentsCoverPrincipal == (tenureMonths - 1) * monthlyPrepayment >= principal

IsPrepaidSbiBenchmark == IsSbiBenchmark /\ monthlyPrepayment = 5000

\* C24 amended: for principal > 0 and tenureMonths > 0 a monthly prepayment > 0
\* never lengthens the schedule or raises its interest: the schedule has no more
\* entries and no more cumulative interest than the schedule of the same loan
\* without prepayment, and monthsSaved >= 0.  It has fewer entries than
\* tenureMonths, and monthsSaved > 0, whenever (tenureMonths - 1) * prepayment
\* >= principal; for the loan of the test (5000000 at 8.5% over 240 months,
\* prepayment 5000) it has fewer than 240 entries, interestSaved > 0 and
\* monthsSaved > 0.
C24_PrepaymentNeverLengthens ==
  PrepaidScheduleReturned
  => /\ Len(schedule) <= Unprepaid.length
     /\ LastEntry.cumulativeInterest <= Unprepaid.cumulativeInterest
     /\ (PrepaymentsCoverPrincipal \/ IsPrepaidSbiBenchmark) => Len(schedule) < tenureMonths
     /\ pc = "saved"
          => /\ saved.monthsSaved >= 0
             /\ (PrepaymentsCoverPrincipal \/ IsPrepaidSbiBenchmark) => saved.monthsSaved > 0
             /\ IsPrepaidSbiBenchmark => saved.interestSaved > 0

\* the loan of the test is paid off early and saves interest
C24_Witness ==
  /\ pc = "saved" /\ IsPrepaidSbiBenchmark
  /\ Len(schedule) < tenureMonths /\ Len(schedule) < Unprepaid.length
  /\ saved.monthsSaved > 0 /\ saved.interestSaved > 0

(***************************************************************************)
(* Claims about the response interceptor                                   *)
(***************************************************************************)
\* the handler has run on the reply of the transport
Intercepted == pc = "settled"

\* what the caller gets is what the transport gave: a failure as a rejection,
\* a response as a fulfilment, neither changed
PassedOn ==
  Intercepted
  => /\ outcome.value = reply
     /\ reply.kind = "error" <=> outcome.state = "rejected"
     /\ reply.kind = "response" <=> outcome.state = "fulfilled"

\* the toasts a failure calls for: one, or none
ToastCalledFor(error) ==
  IF ~error.hasResponse THEN <<"error">>
  ELSE IF error.status = 429 THEN <<"warning">>
  ELSE IF error.status >= 500 THEN <<"error">>
  ELSE << >>

\* the step of the error handler of the build without authentication
ToastStep ==
  (pc = "intercept" /\ pc' = "settled" /\ ~authEnabled)
  => /\ Len(toasts') = Len(toasts) + (IF reply.kind = "error" THEN Len(ToastCalledFor(reply)) ELSE 0)
     /\ SubSeq(toasts', 1, Len(toasts)) = toasts
     /\ Len(toasts') > Len(toasts)
          => toasts'[Len(toasts')].type = ToastCalledFor(reply)[1]
     /\ href' = href

\* the step of the error handler of the build with authentication
RedirectStep ==
  (pc = "intercept" /\ pc' = "settled" /\ authEnabled)
  => /\ href' = (IF reply.kind = "error" /\ reply.hasResponse /\ reply.status = 401
                   THEN "/login" ELSE href)
     /\ outcome'.state = (IF reply.kind = "error" THEN "rejected" ELSE "fulfilled")

PreviousBalance(k) == IF k = 1 THEN principal * emi[2] ELSE schedule[k - 1].balance

\* e is the previous balance times the monthly rate, rounded half-up
IsMonthlyInterest(e, k) ==
  LET num == PreviousBalance(k) * annualRate[1]
      den == MonthsPerYearPct * annualRate[2]
  IN  IF annualRate[1] > 0
        THEN 2 * e * den <= 2 * num + den /\ 2 * num + den < (2 * e + 2) * den
        ELSE e = 0

\* EMI - interest, capped at the previous balance
ScheduledPrincipal(k) ==
  IF emi[1] - schedule[k].interest > PreviousBalance(k)
    THEN PreviousBalance(k)
    ELSE emi[1] - schedule[k].interest

\* the prepayment of entry k: what is configured, capped at what the scheduled
\* principal has left
PrepaymentApplied(k) ==
  LET left == PreviousBalance(k) - ScheduledPrincipal(k)
      configured == monthlyPrepayment * emi[2]
  IN  IF monthlyPrepayment > 0 /\ left > 0
        THEN (IF configured < left THEN configured ELSE left)
        ELSE 0

FollowsStepRule(k) ==
  /\ IsMonthlyInterest(schedule[k].interest, k)
  /\ schedule[k].principal = ScheduledPrincipal(k) + PrepaymentApplied(k)
  /\ schedule[k].balance = PreviousBalance(k) - schedule[k].principal
  /\ schedule[k].emi = schedule[k].principal + schedule[k].interest
  /\ schedule[k].cumulativeInterest
       = schedule[k].interest + (IF k = 1 THEN 0 ELSE schedule[k - 1].cumulativeInterest)

\* C26: each entry of generateAmortization follows the monthly step rule:
\* interest = round(previous balance * monthly rate); scheduled principal = EMI -
\* interest capped at the previous balance; a configured prepayment is applied
\* only after the scheduled principal and capped at what is left; new balance =
\* previous balance - entry.principal, entry.emi = entry.principal +
\* entry.interest, cumulativeInterest = sum of the interest of all entries so far.
C26_MonthlyStepRule == \A k \in 1..Len(schedule) : FollowsStepRule(k)

\* a schedule whose last entry takes the scheduled principal in full and then
\* only part of the configured prepayment, which is all that is left
C26_Witness ==
  /\ pc = "done" /\ monthlyPrepayment > 0 /\ Len(schedule) >= 2
  /\ ScheduledPrincipal(Len(schedule)) = emi[1] - LastEntry.interest
  /\ PrepaymentApplied(Len(schedule)) > 0
  /\ PrepaymentApplied(Len(schedule)) < monthlyPrepayment * emi[2]
  /\ LastEntry.balance = 0

(***************************************************************************)
(* Claims about the sign of the total interest                             *)
(***************************************************************************)
\* C27: calculateTotalInterest never returns a negative amount: for every
\* principal > 0, 0 <= rate <= 50 and tenure > 0 the result is >= 0, and it is
\* exactly 0 when the rate is 0.
C27_TotalInterestNonNegative ==
  (pc = "done" /\ principal > 0 /\ tenureMonths > 0 /\ RateInRange(annualRate, 0, 50))
  => /\ totalInterest >= 0
     /\ annualRate[1] = 0 => totalInterest = 0

(***************************************************************************)
(* Claims about StepSelectLoans                                            *)
(***************************************************************************)
ListedIds == {loans[k].id : k \in 1..Len(loans)}

\* the selection names no id twice and names listed loans only
SelectionWellFormed ==
  /\ \A j, k \in 1..Len(selected) : j # k => selected[j] # selected[k]
  /\ \A k \in 1..Len(selected) : selected[k] \in ListedIds

IsSelected(id) == \E k \in 1..Len(selected) : selected[k] = id

\* a step of toggleLoan changes the membership of one id and of no other
FlipsOneLoan ==
  \E id \in ListedIds :
     /\ IsSelected(id)' = ~IsSelected(id)
     /\ \A other \in ListedIds \ {id} : IsSelected(other)' = IsSelected(other)

\* a step of toggleAll empties the selection when every loan is selected, and
\* selects every loan when not
EmptiesOrSelectsAll ==
  IF \A id \in ListedIds : IsSelected(id)
    THEN selected' = << >>
    ELSE \A id \in ListedIds : IsSelected(id)'

\* C28: from a duplicate-free selection of listed loan ids, any sequence of
\* toggleLoan and toggleAll keeps the selection a duplicate-free subset of the
\* loan ids; toggleLoan(id) flips the membership of exactly that id, and
\* toggleAll yields the empty selection exactly when every loan is selected and
\* otherwise all loan ids.
C28_SelectionToggles ==
  /\ []SelectionWellFormed
  /\ [][(ToggleLoan => FlipsOneLoan) /\ (ToggleAll => EmptiesOrSelectsAll)]_vars

\* of the loans b, c, a the first has been deselected and a selected later
C28_Witness ==
  /\ pc = "wizard" /\ Len(loans) = 3
  /\ selected = <<"c", "a">>

(***************************************************************************)
(* Claims about StepSetBudget                                              *)
(***************************************************************************)
GullakInSync == gullakMode => monthlyExtra = 30 * dailySaving

\* switching Gullak mode off, or changing the daily saving while it is off,
\* leaves the monthly extra as it is
OffLeavesMonthlyExtra ==
  /\ (gullakMode /\ ~gullakMode') => monthlyExtra' = monthlyExtra
  /\ (~gullakMode /\ ~gullakMode' /\ dailySaving' # dailySaving) => monthlyExtra' = monthlyExtra

\* C29: after any sequence of Gullak-mode toggles, daily-saving changes and
\* monthly-slider changes, whenever Gullak mode is on the monthly extra amount
\* reported to the parent equals 30 * dailySaving; switching Gullak mode off and
\* changing dailySaving while it is off leave the monthly extra unchanged.
C29_GullakMonthlyExtra == []GullakInSync /\ [][OffLeavesMonthlyExtra]_vars

\* Gullak mode was on at 500 a day and is off again; the daily saving has been
\* changed since and the monthly extra is still 15000
C29_Witness ==
  /\ pc = "wizard" /\ ~gullakMode
  /\ monthlyExtra = 15000 /\ dailySaving = 10

(***************************************************************************)
(* Claims about ScanDocumentPage                                           *)
(***************************************************************************)
\* nothing is fetched or polled before an upload has succeeded
NoPollingWithoutJob == jobId = NoJob => (fetching = {} /\ pollInterval = Off)

\* the interval is 2000 ms exactly while the last fetched status is pending
PollsWhilePending ==
  pollInterval = 2000 <=> (jobId # NoJob /\ scanStatus.status \in {"uploaded", "processing"})

\* polling has stopped
PollingStopped == pollInterval = 0

\* finalShown records that the observed status has been final
FinalStatusRecorded ==
  /\ scanStatus.status \in {"completed", "review_needed", "failed"} => finalShown
  /\ finalShown => \E j \in JobIds : queryData[j].status \in {"completed", "review_needed", "failed"}

\* a status refresh leaves fields that are not empty as they are
RefreshKeepsEdits ==
  (queryData' # queryData /\ DOMAIN editFields # {}) => editFields' = editFields

\* the fields are only ever set from extracted fields while they are empty
InitializesOnlyEmpty ==
  (editFields' # editFields /\ DOMAIN editFields # {}) => EditField

\* C30: in ScanDocumentPage status polling never starts before an upload has
\* succeeded (jobId set), continues at a 2000 ms interval exactly while the last
\* fetched status is uploaded or processing, and stops for good once the status
\* is completed, review_needed or failed; the editable fields are initialised
\* from the extracted fields only while they are still empty, so a later status
\* refresh never overwrites the user's edits.
C30_PollingAndEdits ==
  /\ [](NoPollingWithoutJob /\ PollsWhilePending)
  /\ [](finalShown => PollingStopped)
  /\ [][RefreshKeepsEdits /\ InitializesOnlyEmpty]_vars

\* the parts of C30 that hold of every run
PollingFollowsStatus == [](NoPollingWithoutJob /\ PollsWhilePending)
EditsSurviveRefresh == [][RefreshKeepsEdits /\ InitializesOnlyEmpty]_vars

\* polling stops for good when a single file is dropped
SingleUploadStopsForGood ==
  [](drops < 2 => (finalShown => PollingStopped))

\* a second job polls with the fields of the first, edited, still in place
SecondJobPolls ==
  /\ pc = "scan" /\ jobId = "job2" /\ pollInterval = 2000
  /\ queryData["job1"].status = "completed"
  /\ "bank_name" \in DOMAIN editFields /\ editFields["bank_name"] = "HDFC"

====
